---- MODULE Spec2Model ----
(***************************************************************************)
(* TI AFE4410 / AFE4420 optical front-end drivers (drivers/iio/health).    *)
(*                                                                         *)
(* Three state machines share this module:                                 *)
(*   SpecCodec  the AFE4410 field-group codec (regmap_group_read/write)    *)
(*              acting on the AFE4410 register file;                       *)
(*   SpecFifo   the byte-stream (I2C) FIFO read, which repacks 3-byte      *)
(*              samples into 4-byte slots in place;                        *)
(*   Spec       the AFE4420 phase/scan coordinator: scan-mode (config)     *)
(*              transitions, buffer enable/disable and the FIFO interrupt. *)
(* C integer arithmetic keeps its width: unsigned int is taken mod 2^32    *)
(* and int is read back through S32.                                       *)
(***************************************************************************)
EXTENDS Integers, Sequences, FiniteSets, TLC

VARIABLES
    regs10,       \* AFE4410 register file (address -> 24-bit value)
    gop,          \* last field-group call, and the last successful group write
    nops,         \* number of field-group operations issued so far
    buffer,       \* byte-stream FIFO buffer, as bytes (index 0 first)
    fifo,         \* last byte-stream fifo_read call: arguments and result
    regs,         \* AFE4420 register file (address -> 24-bit value)
    used_phases,  \* afe4420_data.used_phases
    dev,          \* AFE4420 device life cycle: bound, buffer enabled
    cfg,          \* last afe4420_update_scan_mode call
    irq           \* last afe4420_trigger_handler invocation

vars == <<regs10, gop, nops, buffer, fifo, regs, used_phases, dev, cfg, irq>>

codecVars == <<regs10, gop, nops>>
fifoVars == <<buffer, fifo>>
coordVars == <<regs, used_phases, dev, cfg, irq>>

(***************************************************************************)
(* Machine integers and bit operations.                                    *)
(***************************************************************************)
Pow2(n) == 2 ^ n

\* (unsigned int)x for an int x, as two 16-bit limbs
U32(x) == [hi |-> (x \div 65536) % 65536, lo |-> x % 65536]

\* (int)u for an unsigned int u
S32(u) == (IF u.hi >= 32768 THEN u.hi - 65536 ELSE u.hi) * 65536 + u.lo

\* u % d, u / d and u * m on unsigned int, for small d and m
U32Mod(u, d) == ((u.hi % d) * 65536 + u.lo) % d

U32Div(u, d) == [hi |-> u.hi \div d, lo |-> ((u.hi % d) * 65536 + u.lo) \div d]

U32Mul(u, m) ==
    [hi |-> (u.hi * m + (u.lo * m) \div 65536) % 65536, lo |-> (u.lo * m) % 65536]

RECURSIVE BitAnd(_, _)
BitAnd(a, b) ==
    IF a = 0 \/ b = 0 THEN 0
    ELSE (a % 2) * (b % 2) + 2 * BitAnd(a \div 2, b \div 2)

RECURSIVE BitOr(_, _)
BitOr(a, b) ==
    IF a = 0 THEN b
    ELSE IF b = 0 THEN a
    ELSE (IF a % 2 = 1 \/ b % 2 = 1 THEN 1 ELSE 0) + 2 * BitOr(a \div 2, b \div 2)

\* a & ~m
BitAndNot(a, m) == a - BitAnd(a, m)

\* val << shift, kept to the 24 bits of a register value (val_bits = 24)
Shl(val, shift) == (val % Pow2(24 - shift)) * Pow2(shift)

\* GENMASK(h, l)
GENMASK(h, l) == Pow2(h + 1) - Pow2(l)

BIT(n) == Pow2(n)

RECURSIVE hweight_long(_)
hweight_long(w) == IF w = 0 THEN 0 ELSE (w % 2) + hweight_long(w \div 2)

RECURSIVE ffs0(_)
\* index of the least significant set bit of a non-zero mask (__ffs)
ffs0(w) == IF w % 2 = 1 THEN 0 ELSE 1 + ffs0(w \div 2)

(***************************************************************************)
(* regmap: one register, one field.  A regmap_field is (reg, shift, mask). *)
(* regmap_update_bits is a read-modify-write of one register.              *)
(***************************************************************************)
REG_FIELD(r, l, m) == [reg |-> r, lsb |-> l, msb |-> m]

FieldMask(f) == GENMASK(f.msb, f.lsb)

FieldShift(f) == f.lsb

regmap_update_bits(rf, reg, mask, val) ==
    [rf EXCEPT ![reg] = BitOr(BitAndNot(@, mask), BitAnd(val, mask))]

regmap_field_read(rf, f) == BitAnd(rf[f.reg], FieldMask(f)) \div Pow2(FieldShift(f))

regmap_field_write(rf, f, val) ==
    regmap_update_bits(rf, f.reg, FieldMask(f), Shl(val, FieldShift(f)))

(***************************************************************************)
(* AFE4410 register map, fields and field groups.                          *)
(***************************************************************************)
AFE4410_TIA_GAIN_SEP23 == 31
AFE4410_TIA_GAIN_SEP == 32
AFE4410_TIA_GAIN == 33
AFE440X_LEDCNTRL == 34
AFE4410_LEDCNTRL2 == 36
AFE4410_OFFDAC == 58
AFE4410_OFFDAC_LMSB == 62
AFE4410_FIFO == 66

\* Registers that hold a field of afe4410_reg_fields
Afe4410Regs ==
    {AFE4410_TIA_GAIN_SEP23, AFE4410_TIA_GAIN_SEP, AFE4410_TIA_GAIN,
     AFE440X_LEDCNTRL, AFE4410_LEDCNTRL2, AFE4410_OFFDAC,
     AFE4410_OFFDAC_LMSB, AFE4410_FIFO}

\* enum afe4410_fields: the first field is 1, 0 is left as "no field"
F ==
    [F_TIA_GAIN_SEP2_LSB |-> 1, F_TIA_CF_SEP2 |-> 2, F_TIA_GAIN_SEP2_MSB |-> 3,
     F_TIA_GAIN_SEP3_LSB |-> 4, F_TIA_CF_SEP3 |-> 5, F_TIA_GAIN_SEP3_MSB |-> 6,
     F_TIA_GAIN_SEP_LSB |-> 7, F_TIA_CF_SEP |-> 8, F_TIA_GAIN_SEP_MSB |-> 9,
     F_TIA_GAIN_LSB |-> 10, F_TIA_CF |-> 11, F_TIA_GAIN_MSB |-> 12,
     F_ILED1_MSB |-> 13, F_ILED2_MSB |-> 14, F_ILED3_MSB |-> 15, F_ILED4_MSB |-> 16,
     F_ILED1_LSB |-> 17, F_ILED2_LSB |-> 18, F_ILED3_LSB |-> 19, F_ILED4_LSB |-> 20,
     F_I_OFFDAC_LED3_MID |-> 21, F_POL_OFFDAC_LED3 |-> 22, F_I_OFFDAC_LED1_MID |-> 23,
     F_POL_OFFDAC_LED1 |-> 24, F_I_OFFDAC_AMB1_MID |-> 25, F_POL_OFFDAC_AMB1 |-> 26,
     F_I_OFFDAC_LED2_MID |-> 27, F_POL_OFFDAC_LED2 |-> 28, F_I_OFFDAC_LED3_LSB |-> 29,
     F_I_OFFDAC_LED3_MSB |-> 30, F_I_OFFDAC_LED1_LSB |-> 31, F_I_OFFDAC_LED1_MSB |-> 32,
     F_I_OFFDAC_AMB1_LSB |-> 33, F_I_OFFDAC_AMB1_MSB |-> 34, F_I_OFFDAC_LED2_LSB |-> 35,
     F_I_OFFDAC_LED2_MSB |-> 36, F_I_OFFDAC_LED3_LSB_EXT |-> 37,
     F_I_OFFDAC_LED1_LSB_EXT |-> 38, F_I_OFFDAC_AMB1_LSB_EXT |-> 39,
     F_I_OFFDAC_LED2_LSB_EXT |-> 40,
     F_FIFO_PARTITION |-> 41, F_INT_MUX1 |-> 42, F_REG_FIFO_PERIOD |-> 43,
     F_FIFO_EARLY |-> 44, F_INT_MUX2 |-> 45, F_INT_MUX3 |-> 46,
     F_MAX_FIELDS |-> 47]

\* afe4410_reg_fields[], indexed by enum afe4410_fields
afe4410_reg_fields ==
    << REG_FIELD(AFE4410_TIA_GAIN_SEP23, 0, 2),     \* F_TIA_GAIN_SEP2_LSB
       REG_FIELD(AFE4410_TIA_GAIN_SEP23, 3, 5),     \* F_TIA_CF_SEP2
       REG_FIELD(AFE4410_TIA_GAIN_SEP23, 6, 6),     \* F_TIA_GAIN_SEP2_MSB
       REG_FIELD(AFE4410_TIA_GAIN_SEP23, 8, 10),    \* F_TIA_GAIN_SEP3_LSB
       REG_FIELD(AFE4410_TIA_GAIN_SEP23, 11, 13),   \* F_TIA_CF_SEP3
       REG_FIELD(AFE4410_TIA_GAIN_SEP23, 14, 14),   \* F_TIA_GAIN_SEP3_MSB
       REG_FIELD(AFE4410_TIA_GAIN_SEP, 0, 2),       \* F_TIA_GAIN_SEP_LSB
       REG_FIELD(AFE4410_TIA_GAIN_SEP, 3, 5),       \* F_TIA_CF_SEP
       REG_FIELD(AFE4410_TIA_GAIN_SEP, 6, 6),       \* F_TIA_GAIN_SEP_MSB
       REG_FIELD(AFE4410_TIA_GAIN, 0, 2),           \* F_TIA_GAIN_LSB
       REG_FIELD(AFE4410_TIA_GAIN, 3, 5),           \* F_TIA_CF
       REG_FIELD(AFE4410_TIA_GAIN, 6, 6),           \* F_TIA_GAIN_MSB
       REG_FIELD(AFE440X_LEDCNTRL, 0, 5),           \* F_ILED1_MSB
       REG_FIELD(AFE440X_LEDCNTRL, 6, 11),          \* F_ILED2_MSB
       REG_FIELD(AFE440X_LEDCNTRL, 12, 17),         \* F_ILED3_MSB
       REG_FIELD(AFE4410_LEDCNTRL2, 11, 16),        \* F_ILED4_MSB
       REG_FIELD(AFE440X_LEDCNTRL, 18, 19),         \* F_ILED1_LSB
       REG_FIELD(AFE440X_LEDCNTRL, 20, 21),         \* F_ILED2_LSB
       REG_FIELD(AFE440X_LEDCNTRL, 22, 23),         \* F_ILED3_LSB
       REG_FIELD(AFE4410_LEDCNTRL2, 9, 10),         \* F_ILED4_LSB
       REG_FIELD(AFE4410_OFFDAC, 0, 3),             \* F_I_OFFDAC_LED3_MID
       REG_FIELD(AFE4410_OFFDAC, 4, 4),             \* F_POL_OFFDAC_LED3
       REG_FIELD(AFE4410_OFFDAC, 5, 8),             \* F_I_OFFDAC_LED1_MID
       REG_FIELD(AFE4410_OFFDAC, 9, 9),             \* F_POL_OFFDAC_LED1
       REG_FIELD(AFE4410_OFFDAC, 10, 13),           \* F_I_OFFDAC_AMB1_MID
       REG_FIELD(AFE4410_OFFDAC, 14, 14),           \* F_POL_OFFDAC_AMB1
       REG_FIELD(AFE4410_OFFDAC, 15, 18),           \* F_I_OFFDAC_LED2_MID
       REG_FIELD(AFE4410_OFFDAC, 19, 19),           \* F_POL_OFFDAC_LED2
       REG_FIELD(AFE4410_OFFDAC_LMSB, 0, 0),        \* F_I_OFFDAC_LED3_LSB
       REG_FIELD(AFE4410_OFFDAC_LMSB, 1, 1),        \* F_I_OFFDAC_LED3_MSB
       REG_FIELD(AFE4410_OFFDAC_LMSB, 2, 2),        \* F_I_OFFDAC_LED1_LSB
       REG_FIELD(AFE4410_OFFDAC_LMSB, 3, 3),        \* F_I_OFFDAC_LED1_MSB
       REG_FIELD(AFE4410_OFFDAC_LMSB, 4, 4),        \* F_I_OFFDAC_AMB1_LSB
       REG_FIELD(AFE4410_OFFDAC_LMSB, 5, 5),        \* F_I_OFFDAC_AMB1_MSB
       REG_FIELD(AFE4410_OFFDAC_LMSB, 6, 6),        \* F_I_OFFDAC_LED2_LSB
       REG_FIELD(AFE4410_OFFDAC_LMSB, 7, 7),        \* F_I_OFFDAC_LED2_MSB
       REG_FIELD(AFE4410_OFFDAC_LMSB, 8, 8),        \* F_I_OFFDAC_LED3_LSB_EXT
       REG_FIELD(AFE4410_OFFDAC_LMSB, 9, 9),        \* F_I_OFFDAC_LED1_LSB_EXT
       REG_FIELD(AFE4410_OFFDAC_LMSB, 10, 10),      \* F_I_OFFDAC_AMB1_LSB_EXT
       REG_FIELD(AFE4410_OFFDAC_LMSB, 11, 11),      \* F_I_OFFDAC_LED2_LSB_EXT
       REG_FIELD(AFE4410_FIFO, 0, 3),               \* F_FIFO_PARTITION
       REG_FIELD(AFE4410_FIFO, 4, 5),               \* F_INT_MUX1
       REG_FIELD(AFE4410_FIFO, 6, 13),              \* F_REG_FIFO_PERIOD
       REG_FIELD(AFE4410_FIFO, 14, 18),             \* F_FIFO_EARLY
       REG_FIELD(AFE4410_FIFO, 20, 21),             \* F_INT_MUX2
       REG_FIELD(AFE4410_FIFO, 22, 23) >>           \* F_INT_MUX3

\* enum afe4410_groups: row numbers of afe4410_groups[][6]
G ==
    [G_TIA_GAIN_SEP2 |-> 0, G_TIA_CF_SEP2 |-> 1, G_TIA_GAIN_SEP3 |-> 2,
     G_TIA_CF_SEP3 |-> 3, G_TIA_GAIN_SEP |-> 4, G_TIA_CF_SEP |-> 5,
     G_TIA_GAIN |-> 6, G_TIA_CF |-> 7,
     G_ILED1 |-> 8, G_ILED2 |-> 9, G_ILED3 |-> 10, G_ILED4 |-> 11,
     G_OFFDAC_LED2 |-> 12, G_OFFDAC_ALED2 |-> 13,
     G_OFFDAC_LED1 |-> 14, G_OFFDAC_ALED1 |-> 15,
     G_MAX_FIELDS |-> 16]

\* Row length of afe4410_groups[][6]
GroupRowLen == 6

\* afe4410_groups[][6] as it lies in memory: rows one after another, the
\* entries a row's initializer does not name are 0.
afe4410_groups ==
       <<F.F_TIA_GAIN_SEP2_LSB, F.F_TIA_GAIN_SEP2_MSB, 0, 0, 0, 0>>
    \o <<F.F_TIA_CF_SEP2, 0, 0, 0, 0, 0>>
    \o <<F.F_TIA_GAIN_SEP3_LSB, F.F_TIA_GAIN_SEP3_MSB, 0, 0, 0, 0>>
    \o <<F.F_TIA_CF_SEP3, 0, 0, 0, 0, 0>>
    \o <<F.F_TIA_GAIN_SEP_LSB, F.F_TIA_GAIN_SEP_MSB, 0, 0, 0, 0>>
    \o <<F.F_TIA_CF_SEP, 0, 0, 0, 0, 0>>
    \o <<F.F_TIA_GAIN_LSB, F.F_TIA_GAIN_MSB, 0, 0, 0, 0>>
    \o <<F.F_TIA_CF, 0, 0, 0, 0, 0>>
    \o <<F.F_ILED1_LSB, F.F_ILED1_MSB, 0, 0, 0, 0>>
    \o <<F.F_ILED2_LSB, F.F_ILED2_MSB, 0, 0, 0, 0>>
    \o <<F.F_ILED3_LSB, F.F_ILED3_MSB, 0, 0, 0, 0>>
    \o <<F.F_ILED4_LSB, F.F_ILED4_MSB, 0, 0, 0, 0>>
    \o <<F.F_I_OFFDAC_LED2_LSB_EXT, F.F_I_OFFDAC_LED2_LSB,
         F.F_I_OFFDAC_LED2_MID, F.F_I_OFFDAC_LED2_MSB, 0, 0>>
    \o <<F.F_I_OFFDAC_LED3_LSB_EXT, F.F_I_OFFDAC_LED3_LSB,
         F.F_I_OFFDAC_LED3_MID, F.F_I_OFFDAC_LED3_MSB, 0, 0>>
    \o <<F.F_I_OFFDAC_LED1_LSB_EXT, F.F_I_OFFDAC_LED1_LSB,
         F.F_I_OFFDAC_LED1_MID, F.F_I_OFFDAC_LED1_MSB, 0, 0>>
    \o <<F.F_I_OFFDAC_AMB1_LSB_EXT, F.F_I_OFFDAC_AMB1_LSB,
         F.F_I_OFFDAC_AMB1_MID, F.F_I_OFFDAC_AMB1_MSB, 0, 0>>

Groups == 0 .. (G.G_MAX_FIELDS - 1)

\* The start of row g were the rows four entries long
GroupStartRow4(g) == g * 4 + 1

\* &afe4410_groups[g][0] as an index (1-based) into the flat table
GroupStart(g) == g * GroupRowLen + 1

RECURSIVE GroupFieldsFrom(_)
\* The fields a walk from position p visits before it meets a 0 entry
GroupFieldsFrom(p) ==
    IF afe4410_groups[p] = 0 THEN << >>
    ELSE <<afe4410_groups[p]>> \o GroupFieldsFrom(p + 1)

GroupFields(g) == GroupFieldsFrom(GroupStart(g))

FieldWidth(field) == hweight_long(FieldMask(afe4410_reg_fields[field]))

RECURSIVE SumWidths(_)
SumWidths(fs) == IF fs = << >> THEN 0 ELSE FieldWidth(Head(fs)) + SumWidths(Tail(fs))

\* Total width W of a group
GroupWidth(g) == SumWidths(GroupFields(g))

(***************************************************************************)
(* The field-group codec.  failAt = k > 0 makes the transport fail the     *)
(* k-th field access of the call; failAt = 0 is a fault-free transport.    *)
(* A failing regmap call returns a negative errno (-EIO here).             *)
(***************************************************************************)
RECURSIVE GroupReadLoop(_, _, _, _, _, _)
\* The while loop of regmap_group_read: p walks the group, val is *val
GroupReadLoop(rf, p, current_bit_shift, val, k, failAt) ==
    LET field == afe4410_groups[p] IN
    IF field = 0 THEN [ret |-> 0, val |-> val, n |-> k - 1]
    ELSE IF k = failAt THEN [ret |-> -5, val |-> val, n |-> k - 1]
    ELSE LET field_val == regmap_field_read(rf, afe4410_reg_fields[field]) IN
         GroupReadLoop(rf, p + 1,
                       current_bit_shift + FieldWidth(field),
                       BitOr(val, field_val * Pow2(current_bit_shift)),
                       k + 1, failAt)

\* regmap_group_read(fields, group, &val): ret, the caller's val afterwards,
\* and the number n of fields read
regmap_group_read(rf, p, failAt) == GroupReadLoop(rf, p, 0, 0, 1, failAt)

\* val carried to the next field as it is
NextValNoShift(val, field) == val

\* val >>= hweight_long(fields[field]->mask)
NextVal(val, field) == val \div Pow2(FieldWidth(field))

RECURSIVE GroupWriteLoopNoAbort(_, _, _, _, _)
\* A loop that goes on to the later fields after a failed field write
GroupWriteLoopNoAbort(rf, p, val, k, failAt) ==
    LET field == afe4410_groups[p] IN
    IF field = 0 THEN [ret |-> IF failAt \in 1 .. (k - 1) THEN -5 ELSE 0,
                       rf |-> rf, n |-> k - 1]
    ELSE GroupWriteLoopNoAbort(
             IF k = failAt THEN rf
             ELSE regmap_field_write(rf, afe4410_reg_fields[field], val),
             p + 1, NextVal(val, field), k + 1, failAt)

RECURSIVE GroupWriteLoop(_, _, _, _, _)
\* The while loop of regmap_group_write
GroupWriteLoop(rf, p, val, k, failAt) ==
    LET field == afe4410_groups[p] IN
    IF field = 0 THEN [ret |-> 0, rf |-> rf, n |-> k - 1]
    ELSE IF k = failAt THEN [ret |-> -5, rf |-> rf, n |-> k - 1]
    ELSE GroupWriteLoop(regmap_field_write(rf, afe4410_reg_fields[field], val),
                        p + 1, NextVal(val, field), k + 1, failAt)

\* A group write that rejects a value wider than the group (-EINVAL)
regmap_group_write_checked(rf, p, val, failAt) ==
    IF val >= Pow2(SumWidths(GroupFieldsFrom(p)))
    THEN [ret |-> -22, rf |-> rf, n |-> 0]
    ELSE GroupWriteLoop(rf, p, val, 1, failAt)

\* regmap_group_write(fields, group, val): ret, the register file afterwards,
\* and the number n of fields written
regmap_group_write(rf, p, val, failAt) == GroupWriteLoop(rf, p, val, 1, failAt)

(***************************************************************************)
(* Byte-stream (I2C) FIFO read: afe4410_i2c_fifo_read(dev, buffer, len).   *)
(* buffer is modelled as its bytes: byte k of the model is byte k of the   *)
(* buffer seen as u8[], and slot i is buffer[i], the s32 at bytes          *)
(* 4i..4i+3 in the byte order of the CPU (big = TRUE: big-endian build).   *)
(***************************************************************************)
\* Largest number of 4-byte slots of a modelled FIFO read
MaxSlots == 4

\* Sample 3-byte big-endian triples <<hi, mid, lo>> put on the wire
TripleVals == { <<0, 0, 0>>, <<18, 52, 86>>, <<128, 0, 1>>, <<255, 255, 255>> }

\* Bytes left in the buffer by earlier use
StaleVals == {0, 238}

\* The 3n wire bytes of n triples, indexed from 0
WireOf(triples) ==
    [k \in 0 .. (3 * Len(triples) - 1) |-> triples[(k \div 3) + 1][(k % 3) + 1]]

WireInputs(n) == { WireOf(t) : t \in [1 .. n -> TripleVals] }

\* What slot i must hold: (hi << 16 | mid << 8 | lo) of the i-th triple
Expected(wire, i) == wire[3 * i] * 65536 + wire[3 * i + 1] * 256 + wire[3 * i + 2]

\* m[1].len = (len * 3) >> 2
RxLen(len) == (len * 3) \div 4

\* i2c_transfer() into m[1].buf, which is the buffer: its first RxLen(len) bytes
Received(mem, wire, len) ==
    [k \in DOMAIN mem |-> IF k < RxLen(len) THEN wire[k] ELSE mem[k]]

\* The source bytes taken from a copy of what was received
buf_alias_rx(mem, rx) == rx

\* buf_alias = (u8 *)buffer: the source bytes are the buffer's own
buf_alias(mem, rx) == mem

\* The s32 of four bytes, most significant first
S32OfBytes(b3, b2, b1, b0) ==
    (IF b3 >= 128 THEN b3 - 256 ELSE b3) * 16777216 + b2 * 65536 + b1 * 256 + b0

\* buffer[i] as an s32
Slot(mem, i, big) ==
    IF big
    THEN S32OfBytes(mem[4 * i], mem[4 * i + 1], mem[4 * i + 2], mem[4 * i + 3])
    ELSE S32OfBytes(mem[4 * i + 3], mem[4 * i + 2], mem[4 * i + 1], mem[4 * i])

\* buffer[i] = sign_extend32(v, 23): bit 23 copied into the top byte
StoreSlotSigned(mem, i, v, big) ==
    LET w == IF v >= Pow2(23) THEN v - Pow2(24) ELSE v
        b(j) == (w \div Pow2(8 * j)) % 256
    IN [k \in DOMAIN mem |->
          IF k \div 4 = i
          THEN (IF big THEN b(3 - (k % 4)) ELSE b(k % 4))
          ELSE mem[k]]

\* buffer[i] = v
StoreSlot(mem, i, v, big) ==
    LET b(j) == (v \div Pow2(8 * j)) % 256      \* byte j, least significant first
    IN [k \in DOMAIN mem |->
          IF k \div 4 = i
          THEN (IF big THEN b(3 - (k % 4)) ELSE b(k % 4))
          ELSE mem[k]]

\* One pass of the loop body for slot i
RepackSlot(mem, rx, i, big) ==
    LET src == buf_alias(mem, rx)
        alias_index == i * 3
    IN StoreSlot(mem, i,
                 BitOr(BitOr(src[alias_index + 0] * Pow2(16),
                             src[alias_index + 1] * Pow2(8)),
                       src[alias_index + 2] * Pow2(0)),
                 big)

\* for (i = 0; i < (len >> 2); i++): the slot indices first to last
SlotOrderAscending(len) == [k \in 1 .. (len \div 4) |-> k - 1]

\* for (i = (len >> 2) - 1; i >= 0; i--): the slot indices in loop order
SlotOrder(len) == [k \in 1 .. (len \div 4) |-> (len \div 4) - k]

RECURSIVE Repack(_, _, _, _)
\* The loop body applied to the slots in the given order
Repack(mem, rx, order, big) ==
    IF order = << >> THEN mem
    ELSE Repack(RepackSlot(mem, rx, Head(order), big), rx, Tail(order), big)

\* afe4410_i2c_fifo_read: ret and the buffer afterwards; ok = FALSE when
\* i2c_transfer fails
afe4410_i2c_fifo_read(mem, wire, len, big, ok) ==
    IF ~ok THEN [ret |-> -5, mem |-> mem]
    ELSE LET rx == Received(mem, wire, len)
         IN [ret |-> 0, mem |-> Repack(rx, rx, SlotOrder(len), big)]

(***************************************************************************)
(* AFE4420 register map (afe4420-core.c).                                  *)
(***************************************************************************)
AFE4420_CONTROL0 == 0
AFE4420_PRPCOUNT == 29
AFE4420_CONTROL1 == 35
AFE4420_FIFO == 66
AFE4420_POINTER_DIFF == 109
AFE4420_PHASE == 136
AFE4420_AACM == 147
AFE4420_PHASECNTRL0(x) == 184 + (x * 3)
AFE4420_PHASECNTRL1(x) == 185 + (x * 3)
AFE4420_PHASECNTRL2(x) == 186 + (x * 3)

AFE4420_CONTROL0_TM_COUNT_RST == BIT(1)
AFE4420_CONTROL0_SW_RESET == BIT(3)
AFE4420_CONTROL0_FIFO_EN == BIT(6)
AFE4420_PRPCOUNT_TIMEREN == BIT(23)
AFE4420_CONTROL1_IFS_OFFDAC == GENMASK(12, 10)
AFE4420_CONTROL1_EN_AACM_GBL == BIT(15)
AFE4420_CONTROL1_ILED_2X == BIT(17)
AFE4420_FIFO_INT_MUX_FIFO_RDY == 32
AFE4420_FIFO_REG_WM_FIFO == GENMASK(13, 6)
AFE4420_AACM_IMM_REFRESH == BIT(0)
AFE4420_AACM_QUICK_CONV == BIT(1)
AFE4420_PHASE_REG_NUMPHASE == GENMASK(3, 0)
AFE4420_PHASE_FILT_RESET_ENZ == BIT(16) + BIT(17) + BIT(18) + BIT(19)
AFE4420_PHASECNTRL0_LED_DRV1_TX(n) == BIT(n - 1)
AFE4420_PHASECNTRL0_LED_DRV2_TX(n) == BIT(n + 7)
AFE4420_PHASECNTRL0_PD_ON1 == BIT(16)
AFE4420_PHASECNTRL2_TWLED == GENMASK(7, 0)
AFE4420_PHASECNTRL2_STAGGER_LED == BIT(12)

AFE4420_TOTAL_PHASES == 16
AFE4420_FIFO_MAX_SAMPLES == 128
AFE4420_FIFO_LEN == 10
AFE4420_DEFAULT_PRPCOUNT == 5119
AFE4420_DEFAULT_TWLED == 6

\* sizeof(afe->buffer): s8 buffer[AFE4420_FIFO_MAX_SAMPLES * 4]
BufferBytes == AFE4420_FIFO_MAX_SAMPLES * 4

\* enum afe4420_phases: PHASE1 = 0 .. PHASE16 = 15
Phases == 0 .. (AFE4420_TOTAL_PHASES - 1)

\* The phases whose in_intensityN_resistance attribute the model exercises
AttrPhases == {0, 15}

\* The registers the model holds
Afe4420Regs ==
    {AFE4420_CONTROL0, AFE4420_PRPCOUNT, AFE4420_CONTROL1, AFE4420_FIFO,
     AFE4420_PHASE, AFE4420_AACM}
    \cup { AFE4420_PHASECNTRL0(x) : x \in Phases }
    \cup { AFE4420_PHASECNTRL1(x) : x \in AttrPhases }
    \cup { AFE4420_PHASECNTRL2(x) : x \in Phases }

\* afe4420_reg_fields[F_WM_FIFO] and [F_NUMPHASE]
F_WM_FIFO == REG_FIELD(AFE4420_FIFO, 6, 13)
F_NUMPHASE == REG_FIELD(AFE4420_PHASE, 0, 3)

\* afe4420_reg_fields[F_NUMAV_##phase]
F_NUMAV(phase) == REG_FIELD(AFE4420_PHASECNTRL1(phase), 0, 3)

\* afe4420_reg_fields[F_TIA_GAIN_RF_##phase]
F_TIA_GAIN_RF(phase) == REG_FIELD(AFE4420_PHASECNTRL1(phase), 4, 7)

\* afe4420_reg_sequences[] with AFE4420_TIMING_PAIRS, in array order
afe4420_reg_sequences ==
    << [reg |-> AFE4420_CONTROL0, def |-> AFE4420_CONTROL0_TM_COUNT_RST],
       [reg |-> AFE4420_PRPCOUNT,
        def |-> BitOr(AFE4420_PRPCOUNT_TIMEREN, AFE4420_DEFAULT_PRPCOUNT)],
       [reg |-> AFE4420_CONTROL1,
        def |-> BitOr(AFE4420_CONTROL1_IFS_OFFDAC,
                      BitOr(AFE4420_CONTROL1_EN_AACM_GBL, AFE4420_CONTROL1_ILED_2X))],
       [reg |-> AFE4420_FIFO, def |-> AFE4420_FIFO_INT_MUX_FIFO_RDY],
       [reg |-> AFE4420_PHASE, def |-> AFE4420_PHASE_FILT_RESET_ENZ],
       [reg |-> AFE4420_AACM,
        def |-> BitOr(AFE4420_AACM_IMM_REFRESH, AFE4420_AACM_QUICK_CONV)],
       [reg |-> AFE4420_PHASECNTRL2(1), def |-> AFE4420_PHASECNTRL2_STAGGER_LED],
       [reg |-> AFE4420_PHASECNTRL0(3),
        def |-> BitOr(AFE4420_PHASECNTRL0_LED_DRV1_TX(1), AFE4420_PHASECNTRL0_LED_DRV2_TX(1))],
       [reg |-> AFE4420_PHASECNTRL0(4),
        def |-> BitOr(AFE4420_PHASECNTRL0_LED_DRV1_TX(2), AFE4420_PHASECNTRL0_LED_DRV2_TX(2))],
       [reg |-> AFE4420_PHASECNTRL0(5),
        def |-> BitOr(AFE4420_PHASECNTRL0_LED_DRV1_TX(3), AFE4420_PHASECNTRL0_LED_DRV2_TX(3))],
       [reg |-> AFE4420_PHASECNTRL0(6),
        def |-> BitOr(AFE4420_PHASECNTRL0_LED_DRV1_TX(4), AFE4420_PHASECNTRL0_LED_DRV2_TX(4))] >>

\* The device's registers after a software reset
ResetRegs == [r \in Afe4420Regs |-> 0]

RECURSIVE regmap_multi_reg_write(_, _, _)
\* regmap_multi_reg_write: the first n entries of seq written, in order
regmap_multi_reg_write(rf, seq, n) ==
    IF n = 0 THEN rf
    ELSE [regmap_multi_reg_write(rf, seq, n - 1) EXCEPT ![seq[n].reg] = seq[n].def]

(***************************************************************************)
(* afe4420_update_scan_mode(indio_dev, scan_mask).                         *)
(* The register writes of one call, in program order; each is a            *)
(* regmap_update_bits(reg, mask, val).                                     *)
(***************************************************************************)
\* available_scan_masks: afe4420_scan_masks[n - 1] = GENMASK(n - 1, 0)
afe4420_scan_masks == [n \in 1 .. AFE4420_TOTAL_PHASES |-> GENMASK(n - 1, 0)]

RECURSIVE find_first_zero_bit(_, _)
\* find_first_zero_bit(scan_mask, masklength)
find_first_zero_bit(mask, size) ==
    IF size = 0 THEN 0
    ELSE IF mask % 2 = 0 THEN 0
    ELSE LET r == find_first_zero_bit(mask \div 2, size - 1) IN 1 + r

\* for (i = PHASE2; i < phases; i++)
PdPhasesFromSecond(phases) == [k \in 1 .. (phases - 1) |-> k]

\* for (i = PHASE1; i < phases; i++), first loop: PD enable
PdPhases(phases) == [k \in 1 .. phases |-> k - 1]

\* for (i = PHASE1; i <= phases; i++)
TimedPhasesOneMore(phases) == [k \in 1 .. (phases + 1) |-> k - 1]

\* for (i = PHASE1; i < phases; i++), second loop: sample time
TimedPhases(phases) == [k \in 1 .. phases |-> k - 1]

\* phases * AFE4420_FIFO_LEN
WatermarkNoMinusOne(phases) == phases * AFE4420_FIFO_LEN

\* (phases * AFE4420_FIFO_LEN) - 1
Watermark(phases) == (phases * AFE4420_FIFO_LEN) - 1

\* A write of the whole register in place of regmap_update_bits
UpdateBitsOpWhole(r, m, v) == [reg |-> r, mask |-> Pow2(24) - 1, val |-> v]

\* regmap_update_bits(afe->regmap, r, m, v) as an entry of the write log
UpdateBitsOp(r, m, v) == [reg |-> r, mask |-> m, val |-> v]

FieldWriteOp(f, v) ==
    UpdateBitsOp(f.reg, FieldMask(f), Shl(v, FieldShift(f)))

ScanModeOps(phases) ==
    LET pd == PdPhases(phases)
        tw == TimedPhases(phases)
    IN [k \in DOMAIN pd |->
          UpdateBitsOp(AFE4420_PHASECNTRL0(pd[k]),
                       AFE4420_PHASECNTRL0_PD_ON1, AFE4420_PHASECNTRL0_PD_ON1)]
       \o [k \in DOMAIN tw |->
          UpdateBitsOp(AFE4420_PHASECNTRL2(tw[k]),
                       AFE4420_PHASECNTRL2_TWLED, AFE4420_DEFAULT_TWLED)]
       \o << FieldWriteOp(F_WM_FIFO, Watermark(phases)),
             FieldWriteOp(F_NUMPHASE, phases - 1) >>

RECURSIVE ApplyOps(_, _, _)
\* The first n writes of ops applied to the register file, in order
ApplyOps(rf, ops, n) ==
    IF n = 0 THEN rf
    ELSE LET op == ops[n]
         IN regmap_update_bits(ApplyOps(rf, ops, n - 1), op.reg, op.mask, op.val)

\* A call that puts every register back as it was when a write fails
afe4420_update_scan_mode_rollback(rf, used, scan_mask, failAt) ==
    LET phases == find_first_zero_bit(scan_mask, AFE4420_TOTAL_PHASES)
        ops == ScanModeOps(phases)
    IN IF failAt \in 1 .. Len(ops)
       THEN [ret |-> -5, rf |-> rf, used |-> used,
             phases |-> phases, log |-> SubSeq(ops, 1, failAt - 1)]
       ELSE [ret |-> 0, rf |-> ApplyOps(rf, ops, Len(ops)), used |-> phases,
             phases |-> phases, log |-> ops]

\* A call that assigns afe->used_phases before its register writes
afe4420_update_scan_mode_early(rf, used, scan_mask, failAt) ==
    LET phases == find_first_zero_bit(scan_mask, AFE4420_TOTAL_PHASES)
        ops == ScanModeOps(phases)
    IN IF failAt \in 1 .. Len(ops)
       THEN [ret |-> -5, rf |-> ApplyOps(rf, ops, failAt - 1), used |-> phases,
             phases |-> phases, log |-> SubSeq(ops, 1, failAt - 1)]
       ELSE [ret |-> 0, rf |-> ApplyOps(rf, ops, Len(ops)), used |-> phases,
             phases |-> phases, log |-> ops]

\* One call: failAt = k > 0 makes the k-th register write fail, 0 none.
\* ret, the register file and used_phases afterwards, the writes applied.
afe4420_update_scan_mode(rf, used, scan_mask, failAt) ==
    LET phases == find_first_zero_bit(scan_mask, AFE4420_TOTAL_PHASES)
        ops == ScanModeOps(phases)
    IN IF failAt \in 1 .. Len(ops)
       THEN [ret |-> -5, rf |-> ApplyOps(rf, ops, failAt - 1), used |-> used,
             phases |-> phases, log |-> SubSeq(ops, 1, failAt - 1)]
       ELSE [ret |-> 0, rf |-> ApplyOps(rf, ops, Len(ops)), used |-> phases,
             phases |-> phases, log |-> ops]

(***************************************************************************)
(* Lookup-table-backed attributes.  A table entry is <<integer, fract>>;   *)
(* the value written by the user arrives as the integer and fract that     *)
(* iio_str_to_fixpoint made of it.                                         *)
(***************************************************************************)
afe4420_res_table ==
    << <<10000, 0>>, <<25000, 0>>, <<50000, 0>>, <<100000, 0>>, <<166000, 0>>,
       <<200000, 0>>, <<250000, 0>>, <<500000, 0>>, <<1000000, 0>>,
       <<1500000, 0>>, <<2000000, 0>> >>

RECURSIVE TableScan(_, _, _, _)
\* for (val = 0; val < table_size; val++) if (entry val matches) break;
TableScan(table, integer, fract, val) ==
    IF val = Len(table) THEN val
    ELSE IF table[val + 1] = <<integer, fract>> THEN val
    ELSE TableScan(table, integer, fract, val + 1)

\* The search loop counting its entries from 1
TableIndexFromOne(table, integer, fract) == TableScan(table, integer, fract, 0) + 1

\* The value of val after the search loop: the index of the first matching
\* entry, or the table size
TableIndex(table, integer, fract) == TableScan(table, integer, fract, 0)

\* afe4420_store_resistance on the attribute of a phase: ret (1 stands for
\* count), the registers afterwards, and whether the transport was used
afe4420_store_resistance(rf, phase, integer, fract, ok) ==
    LET val == TableIndex(afe4420_res_table, integer, fract)
    IN IF val = Len(afe4420_res_table)
       THEN [ret |-> -22, rf |-> rf, accessed |-> FALSE]
       ELSE IF ~ok THEN [ret |-> -5, rf |-> rf, accessed |-> TRUE]
       ELSE [ret |-> 1, rf |-> regmap_field_write(rf, F_TIA_GAIN_RF(phase), val),
             accessed |-> TRUE]

\* afe4420_show_resistance: ret (1 stands for the length of the text) and
\* the vals[] handed to iio_format_value
afe4420_show_resistance(rf, phase, ok) ==
    LET reg_val == regmap_field_read(rf, F_TIA_GAIN_RF(phase))
    IN IF ~ok THEN [ret |-> -5, vals |-> <<0, 0>>]
       ELSE IF reg_val >= Len(afe4420_res_table) THEN [ret |-> -22, vals |-> <<0, 0>>]
       ELSE [ret |-> 1, vals |-> afe4420_res_table[reg_val + 1]]

\* A store that writes val itself to the field
afe4420_store_averages_raw(rf, phase, val, ok) ==
    IF val < 1 \/ val > 16 THEN [ret |-> -22, rf |-> rf, accessed |-> FALSE]
    ELSE IF ~ok THEN [ret |-> -5, rf |-> rf, accessed |-> TRUE]
    ELSE [ret |-> 1, rf |-> regmap_field_write(rf, F_NUMAV(phase), val),
          accessed |-> TRUE]

\* afe4420_store_averages with the int val that kstrtoint parsed: ret (1
\* stands for count), the registers afterwards, whether the transport was used
afe4420_store_averages(rf, phase, val, ok) ==
    IF val < 1 \/ val > 16 THEN [ret |-> -22, rf |-> rf, accessed |-> FALSE]
    ELSE LET reg_val == val - 1
         IN IF ~ok THEN [ret |-> -5, rf |-> rf, accessed |-> TRUE]
            ELSE [ret |-> 1, rf |-> regmap_field_write(rf, F_NUMAV(phase), reg_val),
                  accessed |-> TRUE]

\* afe4420_show_averages: ret (1 stands for the length of the text) and the
\* val that is printed
afe4420_show_averages(rf, phase, ok) ==
    LET reg_val == regmap_field_read(rf, F_NUMAV(phase))
    IN IF ~ok THEN [ret |-> -5, val |-> 0]
       ELSE [ret |-> 1, val |-> reg_val + 1]

afe4410_res_table ==
    << <<500000, 0>>, <<250000, 0>>, <<100000, 0>>, <<50000, 0>>, <<25000, 0>>,
       <<10000, 0>>, <<1000000, 0>>, <<2000000, 0>>, <<1500000, 0>> >>

afe4410_cap_table ==
    << <<0, 5000>>, <<0, 2500>>, <<0, 10000>>, <<0, 7500>>, <<0, 20000>>,
       <<0, 17500>>, <<0, 25000>>, <<0, 22500>> >>

\* The AFE440X_ATTR declarations: the group and the table of each attribute
afe440x_attrs ==
    << [field |-> G.G_TIA_GAIN_SEP, val_table |-> afe4410_res_table],
       [field |-> G.G_TIA_CF_SEP, val_table |-> afe4410_cap_table],
       [field |-> G.G_TIA_GAIN_SEP2, val_table |-> afe4410_res_table],
       [field |-> G.G_TIA_CF_SEP2, val_table |-> afe4410_cap_table],
       [field |-> G.G_TIA_GAIN, val_table |-> afe4410_res_table],
       [field |-> G.G_TIA_CF, val_table |-> afe4410_cap_table],
       [field |-> G.G_TIA_GAIN_SEP3, val_table |-> afe4410_res_table],
       [field |-> G.G_TIA_CF_SEP3, val_table |-> afe4410_cap_table] >>

\* afe440x_store_register: ret (1 stands for count), the registers
\* afterwards, the index found and the number n of fields written
afe440x_store_register(rf, a, integer, fract, failAt) ==
    LET table == afe440x_attrs[a].val_table
        val == TableIndex(table, integer, fract)
        w == regmap_group_write(rf, GroupStart(afe440x_attrs[a].field), val, failAt)
    IN IF val = Len(table) THEN [ret |-> -22, rf |-> rf, val |-> val, n |-> 0]
       ELSE IF w.ret # 0 THEN [ret |-> w.ret, rf |-> w.rf, val |-> val, n |-> w.n]
       ELSE [ret |-> 1, rf |-> w.rf, val |-> val, n |-> w.n]

\* afe440x_show_register: ret (1 stands for the length of the text), the
\* group value read and the vals[] handed to iio_format_value
afe440x_show_register(rf, a, failAt) ==
    LET table == afe440x_attrs[a].val_table
        r == regmap_group_read(rf, GroupStart(afe440x_attrs[a].field), failAt)
    IN IF r.ret # 0 THEN [ret |-> r.ret, reg_val |-> r.val, vals |-> <<0, 0>>]
       ELSE IF r.val >= Len(table) THEN [ret |-> -22, reg_val |-> r.val, vals |-> <<0, 0>>]
       ELSE [ret |-> 1, reg_val |-> r.val, vals |-> table[r.val + 1]]

(***************************************************************************)
(* afe4420_trigger_handler(irq, private): the threaded FIFO interrupt.     *)
(***************************************************************************)
\* sign_extend32(value, index): bit `index' is the sign bit
sign_extend32(value, index) ==
    LET low == value % Pow2(index + 1)
    IN IF low >= Pow2(index) THEN low - Pow2(index + 1) ELSE low

\* pointer_diff = sign_extend32(reg_val, 8); pointer_diff += 1;
PointerDiff(reg_val) == sign_extend32(reg_val, 8) + 1

\* if (!(pointer_diff % afe->used_phases))
MisalignedInverted(pointer_diff, used) == U32Mod(U32(pointer_diff), used) = 0

\* if (pointer_diff % afe->used_phases): int against unsigned int, so the
\* remainder is taken on the unsigned 32-bit conversion of pointer_diff
Misaligned(pointer_diff, used) == U32Mod(U32(pointer_diff), used) # 0

\* cycles = pointer_diff / afe->used_phases: unsigned division, stored in int
Cycles(pointer_diff, used) == S32(U32Div(U32(pointer_diff), used))

\* (afe->used_phases * cycles * sizeof(s32)) passed as the int len
FifoLen(used, cycles) == S32(U32Mul(U32Mul(U32(cycles), used), 4))

\* &afe->buffer[i * (afe->used_phases * sizeof(s32))]
FrameOffset(i, used) == i * (used * 4)

\* The byte offsets pushed by for (i = 0; i < cycles; i++)
Frames(cycles, used) ==
    IF cycles <= 0 THEN << >>
    ELSE [k \in 1 .. cycles |-> FrameOffset(k - 1, used)]

\* The burst read stays inside afe->buffer
LenInBuffer(len) == len >= 0 /\ len <= BufferBytes

\* Every pushed frame lies inside afe->buffer
FramesInBuffer(cycles, used) ==
    cycles <= 0 \/ (cycles <= BufferBytes /\ FrameOffset(cycles, used) <= BufferBytes)

\* No service under way.  Of a service the record keeps: stage ("checked"
\* once the count has passed the modulo test, "done" at the end), used and
\* used2 (afe->used_phases as read for the modulo test and as read after
\* it), accesses (the transport accesses made, in order), fail (the access
\* that failed), ret (the value returned) and drained (the burst read took
\* all the samples counted out of the FIFO).
NoIrq ==
    [served |-> FALSE, reg_val |-> 0, used |-> 0, pointer_diff |-> 0,
     status |-> "none", cycles |-> 0, read |-> FALSE, len |-> 0,
     frames |-> << >>,
     stage |-> "idle", used2 |-> 0, accesses |-> << >>, fail |-> "none",
     ret |-> "none", drained |-> FALSE]

\* What the environment does to one service of the interrupt: "ok" nothing,
\* "ptrfail" the POINTER_DIFF read fails, "readfail" the transport's
\* fifo_read fails, "fault" an access outside afe->buffer faults (with any
\* other choice such an access goes through).
IrqEnv == {"ok", "ptrfail", "readfail", "fault"}

\* The burst read is taken to have succeeded whatever the transport says
ReadFailedIgnored(env) == FALSE

\* ret = afe->fifo_read(...); if (ret < 0) goto err;
ReadFailed(env) == env = "readfail"

\* One service of the interrupt; used is afe->used_phases as the modulo test
\* reads it, used2 as the division, the burst length and the push loop do.
\* A positive pointer_diff is at most 2^8, so more cycles than 2^9 come only
\* from a wrapped negative count, and that push loop runs off mapped memory.
TriggerHandler(used, used2, reg_val, env) ==
    LET pointer_diff == PointerDiff(reg_val)
        cycles == Cycles(pointer_diff, used2)
        len == FifoLen(used2, cycles)
        base == [NoIrq EXCEPT !.served = TRUE, !.stage = "done",
                              !.reg_val = reg_val, !.used = used,
                              !.accesses = <<"POINTER_DIFF">>,
                              !.fail = IF env = "ptrfail" THEN "ptr" ELSE "none"]
        got == [base EXCEPT !.pointer_diff = pointer_diff]
        rd == [got EXCEPT !.used2 = used2, !.cycles = cycles, !.read = TRUE,
                          !.len = len,
                          !.accesses = <<"POINTER_DIFF", "FIFO">>,
                          !.fail = IF env = "readfail" THEN "read" ELSE "none"]
    IN IF env = "ptrfail" THEN [base EXCEPT !.status = "ioerr", !.ret = "IRQ_HANDLED"]
       ELSE IF Misaligned(pointer_diff, used)
            THEN [got EXCEPT !.status = "framing", !.ret = "IRQ_HANDLED"]
       ELSE IF ~LenInBuffer(len) /\ env = "fault" THEN [rd EXCEPT !.status = "crash"]
       ELSE IF ReadFailed(env)
            THEN [rd EXCEPT !.status = "readfail", !.ret = "IRQ_HANDLED"]
       ELSE IF ~FramesInBuffer(cycles, used2) /\ (env = "fault" \/ cycles > Pow2(9))
            THEN [rd EXCEPT !.status = "crash"]
       ELSE [rd EXCEPT !.status = "ok", !.frames = Frames(cycles, used2),
                       !.ret = "IRQ_HANDLED",
                       !.drained = (len >= 0 /\ len = 4 * pointer_diff)]

\* One service during which afe->used_phases keeps its value
afe4420_trigger_handler(used, reg_val, env) == TriggerHandler(used, used, reg_val, env)

(***************************************************************************)
(* The AFE4420 driver as a state machine.                                  *)
(*   regs         the device's registers (24-bit values, no cache)         *)
(*   used_phases  afe->used_phases                                         *)
(*   dev          life cycle: probe state, tx_sup enable count, buffer     *)
(*                enabled, outcome of the last update_scan_mode, level of  *)
(*                the reset pin, system sleep state, return value of the   *)
(*                last setup/suspend/resume/teardown, whether a register   *)
(*                access was made with tx_sup disabled, the last attribute *)
(*                call and the number of attribute calls                   *)
(*   cfg          what the last update_scan_mode call did                  *)
(*   irq          what the last interrupt service did                      *)
(***************************************************************************)
MaxConfigs == 2

\* Raw POINTER_DIFF register values the device may present
PointerDiffVals == {0, 3, 39, 40, 127, 128, 159, 255, 256, 510, 511, 551}

NoCfg == [called |-> FALSE, phases |-> 0, ret |-> 0, failAt |-> 0, log |-> << >>]

\* Where the transport is made to fail during a scan-mode call of n phases:
\* nowhere, at the first or last write of either loop, at the watermark
\* write, at the phase-count write.
FailPoints(n) == {0, 1, n, n + 1, 2 * n, 2 * n + 1, 2 * n + 2}

SetupSteps ==
    {"none", "alloc", "fields", "regulator_get", "regulator_enable", "gpio",
     "reset", "defaults", "kfifo", "irq", "register"}

\* afe4420_setup(regmap, irq, fifo_read) with irq > 0; fail names the step
\* that fails, k the entry of the default table at which the write fails.
afe4420_setup(rf, fail, k) ==
    LET nseq == Len(afe4420_reg_sequences)
    IN CASE fail \in {"alloc", "fields", "regulator_get", "regulator_enable"} ->
              [ret |-> -1, rf |-> rf, power |-> 0, reset |-> 1]
         [] fail = "gpio" ->
              [ret |-> -1, rf |-> rf, power |-> 1, reset |-> 1]
         [] fail = "reset" ->
              [ret |-> -1, rf |-> rf, power |-> 0, reset |-> 0]
         [] fail = "defaults" ->
              [ret |-> -1,
               rf |-> regmap_multi_reg_write(ResetRegs, afe4420_reg_sequences, k - 1),
               power |-> 0, reset |-> 0]
         [] fail \in {"kfifo", "irq", "register"} ->
              [ret |-> -1,
               rf |-> regmap_multi_reg_write(ResetRegs, afe4420_reg_sequences, nseq),
               power |-> 0, reset |-> 0]
         [] OTHER ->
              [ret |-> 0,
               rf |-> regmap_multi_reg_write(ResetRegs, afe4420_reg_sequences, nseq),
               power |-> 1, reset |-> 0]

\* No attribute call made
NoAttr == [kind |-> "none", phase |-> 0, integer |-> 0, fract |-> 0, ret |-> 0]

\* A register access by the driver: noted when the tx_sup rail is disabled
RegAccess(d) == [d EXCEPT !.offaccess = @ \/ d.power = 0]

\* Before probe: the device in its reset state, nothing configured
CoordIdle ==
    /\ regs = ResetRegs
    /\ used_phases = 0
    /\ dev = [state |-> "unbound", power |-> 0, enabled |-> FALSE,
              scan |-> "none", nconfigs |-> 0,
              reset |-> 1, pm |-> "active", ret |-> 0, offaccess |-> FALSE,
              attr |-> NoAttr, nattrs |-> 0]
    /\ cfg = NoCfg
    /\ irq = NoIrq

\* No FIFO read under way
FifoIdle ==
    /\ buffer = << >>
    /\ fifo = [state |-> "none", len |-> 0, wire |-> << >>, big |-> FALSE, ret |-> 0]

(***************************************************************************)
(* The AFE4410 field-group codec as a state machine: group writes and      *)
(* reads (the store and show paths of the attributes and write_raw /       *)
(* read_raw) against the device's registers.                               *)
(*   regs10  the AFE4410 registers that hold a field                       *)
(*   gop     the last codec call: what was asked and what came back; wg,   *)
(*           wv name the group and value of the last group write when it   *)
(*           succeeded (wg = -1 otherwise)                                 *)
(*           rf0 the registers as they were when the call was made         *)
(*           attr, integer, fract: the attribute of a store or show call   *)
(*           (its position in afe440x_attrs) and the value stored or shown *)
(*   nops    number of codec calls and interrupt services made             *)
(*   irq     what the last service of the AFE4410 interrupt did            *)
(***************************************************************************)
MaxCodecOps == 2

\* AFE440X_TIAGAIN_ENSEPGAIN
AFE440X_TIAGAIN_ENSEPGAIN == BIT(15)

\* The registers after afe4410_reg_sequences[] has been written
Afe4410Defaults ==
    [r \in Afe4410Regs |->
        IF r = AFE4410_TIA_GAIN_SEP THEN AFE440X_TIAGAIN_ENSEPGAIN
        ELSE IF r = AFE4410_FIFO THEN 608
        ELSE 0]

\* Values handed to a group write: zero, a mixed bit pattern and the largest
\* value of the group's width, and one value wider than every group
GroupVals(g) ==
    {0, 109 % Pow2(GroupWidth(g)), Pow2(GroupWidth(g)) - 1, 2147483501}

NoOp ==
    [kind |-> "none", g |-> 0, v |-> 0, ret |-> 0, val |-> 0, n |-> 0,
     failAt |-> 0, wg |-> -1, wv |-> 0, rf0 |-> Afe4410Defaults,
     attr |-> 0, integer |-> 0, fract |-> 0]

CodecIdle ==
    /\ regs10 = Afe4410Defaults
    /\ gop = NoOp
    /\ nops = 0

GroupWrite(g, v, failAt) ==
    /\ nops < MaxCodecOps
    /\ \E r \in {regmap_group_write(regs10, GroupStart(g), v, failAt)} :
          /\ regs10' = r.rf
          /\ gop' = [kind |-> "write", g |-> g, v |-> v, ret |-> r.ret, val |-> 0,
                     n |-> r.n, failAt |-> failAt,
                     wg |-> IF r.ret = 0 THEN g ELSE -1,
                     wv |-> IF r.ret = 0 THEN v ELSE 0,
                     rf0 |-> regs10, attr |-> 0, integer |-> 0, fract |-> 0]
    /\ nops' = nops + 1
    /\ UNCHANGED <<fifoVars, coordVars>>

GroupRead(g, failAt) ==
    /\ nops < MaxCodecOps
    /\ \E r \in {regmap_group_read(regs10, GroupStart(g), failAt)} :
          gop' = [kind |-> "read", g |-> g, v |-> 0, ret |-> r.ret, val |-> r.val,
                  n |-> r.n, failAt |-> failAt, wg |-> gop.wg, wv |-> gop.wv,
                  rf0 |-> regs10, attr |-> 0, integer |-> 0, fract |-> 0]
    /\ nops' = nops + 1
    /\ UNCHANGED <<regs10, fifoVars, coordVars>>

\* Values written to a table-backed attribute: every entry of its table
\* and two values that are in neither table
StoreVals(table) ==
    { table[i] : i \in DOMAIN table } \cup { <<12345, 0>>, <<10000, 1>> }

\* A write of a resistance or capacitance attribute
StoreRegister(a, v, failAt) ==
    /\ nops < MaxCodecOps
    /\ \E r \in {afe440x_store_register(regs10, a, v[1], v[2], failAt)} :
          /\ regs10' = r.rf
          /\ gop' = [kind |-> "store", g |-> afe440x_attrs[a].field, v |-> r.val,
                     ret |-> r.ret, val |-> 0, n |-> r.n, failAt |-> failAt,
                     wg |-> -1, wv |-> 0, rf0 |-> regs10,
                     attr |-> a, integer |-> v[1], fract |-> v[2]]
    /\ nops' = nops + 1
    /\ UNCHANGED <<fifoVars, coordVars>>

\* A read of a resistance or capacitance attribute
ShowRegister(a, failAt) ==
    /\ nops < MaxCodecOps
    /\ \E r \in {afe440x_show_register(regs10, a, failAt)} :
          gop' = [kind |-> "show", g |-> afe440x_attrs[a].field, v |-> 0,
                  ret |-> r.ret, val |-> r.reg_val, n |-> 0, failAt |-> failAt,
                  wg |-> -1, wv |-> 0, rf0 |-> regs10,
                  attr |-> a, integer |-> r.vals[1], fract |-> r.vals[2]]
    /\ nops' = nops + 1
    /\ UNCHANGED <<regs10, fifoVars, coordVars>>

\* #define FIFO_LEN 10 of the AFE4410 driver
FIFO_LEN == 10

\* A service that pushes its frames whether or not the read succeeded
afe4410_trigger_handler_unchecked(ok) ==
    [NoIrq EXCEPT !.served = TRUE, !.stage = "done", !.read = TRUE,
                  !.len = 4 * (4 * FIFO_LEN), !.accesses = <<"FIFO">>,
                  !.fail = IF ok THEN "none" ELSE "read",
                  !.status = IF ok THEN "ok" ELSE "readfail",
                  !.cycles = FIFO_LEN,
                  !.frames = [i \in 1 .. FIFO_LEN |-> 4 * ((i - 1) * 4)],
                  !.ret = "IRQ_HANDLED"]

\* afe4410_trigger_handler: one fifo_read of sizeof(afe->buffer) bytes
\* through the I2C or SPI callback (ok = FALSE: it returns an error), then
\* FIFO_LEN pushes of &afe->buffer[i * 4]; frames are byte offsets
afe4410_trigger_handler(ok) ==
    [NoIrq EXCEPT !.served = TRUE, !.stage = "done", !.read = TRUE,
                  !.len = 4 * (4 * FIFO_LEN), !.accesses = <<"FIFO">>,
                  !.fail = IF ok THEN "none" ELSE "read",
                  !.status = IF ok THEN "ok" ELSE "readfail",
                  !.cycles = FIFO_LEN,
                  !.frames = IF ok THEN [i \in 1 .. FIFO_LEN |-> 4 * ((i - 1) * 4)]
                             ELSE << >>,
                  !.ret = "IRQ_HANDLED"]

\* One interrupt of the AFE4410
Afe4410Irq(ok) ==
    /\ nops < MaxCodecOps
    /\ irq' = afe4410_trigger_handler(ok)
    /\ nops' = nops + 1
    /\ UNCHANGED <<regs10, gop, fifoVars, regs, used_phases, dev, cfg>>

InitCodec == CodecIdle /\ FifoIdle /\ CoordIdle

NextCodec ==
    \/ \E a \in DOMAIN afe440x_attrs :
         \E v \in StoreVals(afe440x_attrs[a].val_table),
            failAt \in 0 .. Len(GroupFields(afe440x_attrs[a].field)) :
          StoreRegister(a, v, failAt)
    \/ \E a \in DOMAIN afe440x_attrs :
         \E failAt \in 0 .. Len(GroupFields(afe440x_attrs[a].field)) :
          ShowRegister(a, failAt)
    \/ \E g \in Groups : \E v \in GroupVals(g), failAt \in 0 .. Len(GroupFields(g)) :
          GroupWrite(g, v, failAt)
    \/ \E g \in Groups : \E failAt \in 0 .. Len(GroupFields(g)) : GroupRead(g, failAt)
    \/ \E ok \in BOOLEAN : Afe4410Irq(ok)

SpecCodec == InitCodec /\ [][NextCodec]_vars

(***************************************************************************)
(* The byte-stream FIFO read as a state machine: one call of               *)
(* afe4410_i2c_fifo_read on a buffer of len / 4 slots.                     *)
(*   buffer  the bytes of the caller's buffer, indexed from 0              *)
(*   fifo    the call: its len, the bytes the device puts on the wire, the *)
(*           byte order of the CPU, and its return value once made         *)
(***************************************************************************)
InitFifo ==
    /\ \E n \in 1 .. MaxSlots, big \in BOOLEAN, stale \in StaleVals :
         \E wire \in WireInputs(n) :
          /\ buffer = [k \in 0 .. (4 * n - 1) |-> stale]
          /\ fifo = [state |-> "idle", len |-> 4 * n, wire |-> wire, big |-> big,
                     ret |-> 0]
    /\ CodecIdle
    /\ CoordIdle

I2cFifoRead(ok) ==
    /\ fifo.state = "idle"
    /\ \E r \in {afe4410_i2c_fifo_read(buffer, fifo.wire, fifo.len, fifo.big, ok)} :
          /\ buffer' = r.mem
          /\ fifo' = [fifo EXCEPT !.state = "done", !.ret = r.ret]
    /\ UNCHANGED <<codecVars, coordVars>>

NextFifo == \E ok \in BOOLEAN : I2cFifoRead(ok)

SpecFifo == InitFifo /\ [][NextFifo]_vars

Init == CoordIdle /\ CodecIdle /\ FifoIdle

Setup(fail, k) ==
    /\ dev.state = "unbound"
    /\ \E r \in {afe4420_setup(regs, fail, k)} :
          /\ regs' = r.rf
          /\ dev' = [dev EXCEPT !.state = IF r.ret = 0 THEN "bound" ELSE "failed",
                                !.power = r.power, !.reset = r.reset,
                                !.ret = r.ret]
    /\ UNCHANGED <<used_phases, cfg, irq, codecVars, fifoVars>>

\* The IIO core calls update_scan_mode with one of available_scan_masks
\* while the buffer is being enabled.
UpdateScanMode(n, failAt) ==
    /\ dev.state = "bound"
    /\ dev.pm = "active"
    /\ ~dev.enabled
    /\ dev.nconfigs < MaxConfigs
    /\ \E r \in {afe4420_update_scan_mode(regs, used_phases, afe4420_scan_masks[n], failAt)} :
          /\ regs' = r.rf
          /\ used_phases' = r.used
          /\ cfg' = [called |-> TRUE, phases |-> r.phases, ret |-> r.ret,
                     failAt |-> failAt, log |-> r.log]
          /\ dev' = RegAccess([dev EXCEPT !.scan = IF r.ret = 0 THEN "ok" ELSE "failed",
                                          !.nconfigs = @ + 1, !.attr = NoAttr])
    /\ irq' = IF irq.stage = "checked" THEN irq ELSE NoIrq
    /\ UNCHANGED <<codecVars, fifoVars>>

\* afe4420_buffer_postenable: one whole-register write, result ignored
PostEnable(ok) ==
    /\ dev.state = "bound"
    /\ dev.pm = "active"
    /\ ~dev.enabled
    /\ dev.scan = "ok"
    /\ regs' = IF ok THEN [regs EXCEPT ![AFE4420_CONTROL0] = AFE4420_CONTROL0_FIFO_EN]
               ELSE regs
    /\ dev' = RegAccess([dev EXCEPT !.enabled = TRUE, !.attr = NoAttr])
    /\ UNCHANGED <<used_phases, cfg, irq, codecVars, fifoVars>>

\* afe4420_buffer_predisable: one whole-register write, result ignored
PreDisable(ok) ==
    /\ dev.state = "bound"
    /\ dev.pm = "active"
    /\ dev.enabled
    /\ regs' = IF ok THEN [regs EXCEPT ![AFE4420_CONTROL0] = AFE4420_CONTROL0_TM_COUNT_RST]
               ELSE regs
    /\ dev' = RegAccess([dev EXCEPT !.enabled = FALSE, !.scan = "none",
                                    !.attr = NoAttr])
    /\ cfg' = NoCfg
    /\ irq' = IF irq.stage = "checked" THEN irq ELSE NoIrq
    /\ UNCHANGED <<used_phases, codecVars, fifoVars>>

\* The device raises the FIFO-ready interrupt while its FIFO is enabled; the
\* line is requested IRQF_ONESHOT, so it stays masked until the threaded
\* handler has returned.
Irq(reg_val, env) ==
    /\ dev.state = "bound"
    /\ ~irq.served
    /\ BitAnd(regs[AFE4420_CONTROL0], AFE4420_CONTROL0_FIFO_EN) # 0
    /\ irq' = afe4420_trigger_handler(used_phases, reg_val, env)
    /\ cfg' = NoCfg
    /\ dev' = RegAccess([dev EXCEPT !.attr = NoAttr])
    /\ UNCHANGED <<regs, used_phases, codecVars, fifoVars>>

\* return IRQ_HANDLED: the handler is done and the line is unmasked
IrqReturn ==
    /\ irq.served
    /\ irq' = NoIrq
    /\ UNCHANGED <<regs, used_phases, dev, cfg, codecVars, fifoVars>>

(***************************************************************************)
(* The life cycle with its concurrency: the interrupt thread runs beside   *)
(* the sysfs and power-management callbacks, which take no lock it takes,  *)
(* so its service is two steps here, the count and its test, then the      *)
(* rest.                                                                   *)
(***************************************************************************)
\* Largest number of attribute calls
MaxAttrOps == 1

\* Phase counts configured, POINTER_DIFF values presented and resistance
\* values stored in the life-cycle specification
LifePhases == {4, 8}
LifePointerDiffVals == {3, 39}
LifeStoreVals == { <<2000000, 0>>, <<12345, 0>> }

\* First step of a service: regmap_read of POINTER_DIFF and the modulo test
IrqBegin(reg_val, env) ==
    /\ dev.state = "bound"
    /\ dev.power = 1
    /\ irq.stage = "idle"
    /\ BitAnd(regs[AFE4420_CONTROL0], AFE4420_CONTROL0_FIFO_EN) # 0
    /\ irq' = IF env = "ptrfail" \/ Misaligned(PointerDiff(reg_val), used_phases)
              THEN TriggerHandler(used_phases, used_phases, reg_val, env)
              ELSE [NoIrq EXCEPT !.stage = "checked", !.reg_val = reg_val,
                                 !.used = used_phases,
                                 !.pointer_diff = PointerDiff(reg_val),
                                 !.accesses = <<"POINTER_DIFF">>]
    /\ cfg' = NoCfg
    /\ dev' = RegAccess([dev EXCEPT !.attr = NoAttr])
    /\ UNCHANGED <<regs, used_phases, codecVars, fifoVars>>

\* Second step: division, burst read and push loop, each reading
\* afe->used_phases as it is by then
IrqFinish(env) ==
    /\ irq.stage = "checked"
    /\ irq' = TriggerHandler(irq.used, used_phases, irq.reg_val, env)
    /\ dev' = RegAccess(dev)
    /\ UNCHANGED <<regs, used_phases, cfg, codecVars, fifoVars>>

\* afe4420_suspend; asserting the reset pin puts the registers back to
\* their reset values.  regulator_disable fails when ok is FALSE or when the
\* rail is not enabled; the sleep transition is then abandoned.
Suspend(ok) ==
    /\ dev.state = "bound"
    /\ dev.pm = "active"
    /\ regs' = ResetRegs
    /\ \E done \in {ok /\ dev.power = 1} :
          dev' = [dev EXCEPT !.reset = 1,
                             !.power = IF done THEN 0 ELSE @,
                             !.pm = IF done THEN "suspended" ELSE "active",
                             !.ret = IF done THEN 0 ELSE -1,
                             !.attr = NoAttr]
    /\ UNCHANGED <<used_phases, cfg, irq, codecVars, fifoVars>>

\* afe4420_resume; the system wakes whether or not regulator_enable worked
Resume(ok) ==
    /\ dev.state = "bound"
    /\ dev.pm = "suspended"
    /\ dev' = [dev EXCEPT !.power = IF ok THEN 1 ELSE @,
                          !.reset = IF ok THEN 0 ELSE @,
                          !.pm = "active",
                          !.ret = IF ok THEN 0 ELSE -1]
    /\ UNCHANGED <<regs, used_phases, cfg, irq, codecVars, fifoVars>>

\* afe4420_teardown: iio_device_unregister disables an enabled buffer
\* (afe4420_buffer_predisable), then regulator_disable, which fails when ok
\* is FALSE or when the rail is not enabled.  The interrupt is released by
\* devres only after teardown has returned.
Teardown(ok) ==
    /\ dev.state = "bound"
    /\ dev.pm = "active"
    /\ regs' = IF dev.enabled
               THEN [regs EXCEPT ![AFE4420_CONTROL0] = AFE4420_CONTROL0_TM_COUNT_RST]
               ELSE regs
    /\ \E done \in {ok /\ dev.power = 1} :
        \E d \in {[dev EXCEPT !.state = "removed", !.enabled = FALSE,
                               !.scan = "none",
                               !.power = IF done THEN 0 ELSE @,
                               !.ret = IF done THEN 0 ELSE -1,
                               !.attr = NoAttr]} :
          dev' = IF dev.enabled THEN [d EXCEPT !.offaccess = @ \/ dev.power = 0]
                 ELSE d
    /\ cfg' = NoCfg
    /\ UNCHANGED <<used_phases, irq, codecVars, fifoVars>>

\* A write of in_intensityN_resistance
StoreResistance(phase, v, ok) ==
    /\ dev.state = "bound"
    /\ dev.pm = "active"
    /\ dev.nattrs < MaxAttrOps
    /\ \E r \in {afe4420_store_resistance(regs, phase, v[1], v[2], ok)} :
          /\ regs' = r.rf
          /\ \E d \in {[dev EXCEPT !.nattrs = @ + 1,
                                    !.attr = [kind |-> "store", phase |-> phase,
                                              integer |-> v[1], fract |-> v[2],
                                              ret |-> r.ret]]} :
                dev' = IF r.accessed THEN RegAccess(d) ELSE d
    /\ UNCHANGED <<used_phases, cfg, irq, codecVars, fifoVars>>

\* A read of in_intensityN_resistance
ShowResistance(phase, ok) ==
    /\ dev.state = "bound"
    /\ dev.pm = "active"
    /\ dev.nattrs < MaxAttrOps
    /\ \E r \in {afe4420_show_resistance(regs, phase, ok)} :
          dev' = RegAccess([dev EXCEPT !.nattrs = @ + 1,
                                       !.attr = [kind |-> "show", phase |-> phase,
                                                 integer |-> r.vals[1],
                                                 fract |-> r.vals[2],
                                                 ret |-> r.ret]])
    /\ UNCHANGED <<regs, used_phases, cfg, irq, codecVars, fifoVars>>

\* Values written to in_intensityN_averages
LifeAverages == {0, 1, 7, 16, 17}

\* A write of in_intensityN_averages
StoreAverages(phase, v, ok) ==
    /\ dev.state = "bound"
    /\ dev.pm = "active"
    /\ dev.nattrs < MaxAttrOps
    /\ \E r \in {afe4420_store_averages(regs, phase, v, ok)} :
          /\ regs' = r.rf
          /\ \E d \in {[dev EXCEPT !.nattrs = @ + 1,
                                    !.attr = [kind |-> "store_av", phase |-> phase,
                                              integer |-> v, fract |-> 0,
                                              ret |-> r.ret]]} :
                dev' = IF r.accessed THEN RegAccess(d) ELSE d
    /\ UNCHANGED <<used_phases, cfg, irq, codecVars, fifoVars>>

\* A read of in_intensityN_averages
ShowAverages(phase, ok) ==
    /\ dev.state = "bound"
    /\ dev.pm = "active"
    /\ dev.nattrs < MaxAttrOps
    /\ \E r \in {afe4420_show_averages(regs, phase, ok)} :
          dev' = RegAccess([dev EXCEPT !.nattrs = @ + 1,
                                       !.attr = [kind |-> "show_av", phase |-> phase,
                                                 integer |-> r.val, fract |-> 0,
                                                 ret |-> r.ret]])
    /\ UNCHANGED <<regs, used_phases, cfg, irq, codecVars, fifoVars>>

NextLife ==
    \/ \E fail \in SetupSteps : Setup(fail, 1)
    \/ \E n \in LifePhases, failAt \in {0, 1} : UpdateScanMode(n, failAt)
    \/ \E ok \in BOOLEAN : PostEnable(ok)
    \/ \E ok \in BOOLEAN : PreDisable(ok)
    \/ \E reg_val \in LifePointerDiffVals, env \in {"ok", "ptrfail"} :
          IrqBegin(reg_val, env)
    \/ \E env \in {"ok", "readfail", "fault"} : IrqFinish(env)
    \/ IrqReturn
    \/ \E ok \in BOOLEAN : Suspend(ok)
    \/ \E ok \in BOOLEAN : Resume(ok)
    \/ \E ok \in BOOLEAN : Teardown(ok)
    \/ \E phase \in AttrPhases, v \in LifeStoreVals, ok \in BOOLEAN :
          StoreResistance(phase, v, ok)
    \/ \E phase \in AttrPhases, ok \in BOOLEAN : ShowResistance(phase, ok)
    \/ \E phase \in AttrPhases, v \in LifeAverages, ok \in BOOLEAN :
          StoreAverages(phase, v, ok)
    \/ \E phase \in AttrPhases, ok \in BOOLEAN : ShowAverages(phase, ok)

SpecLife == Init /\ [][NextLife]_vars

Next ==
    \/ \E fail \in SetupSteps, k \in 1 .. Len(afe4420_reg_sequences) : Setup(fail, k)
    \/ \E n \in 1 .. AFE4420_TOTAL_PHASES : \E failAt \in FailPoints(n) :
          UpdateScanMode(n, failAt)
    \/ \E ok \in BOOLEAN : PostEnable(ok)
    \/ \E ok \in BOOLEAN : PreDisable(ok)
    \/ \E reg_val \in PointerDiffVals, env \in IrqEnv : Irq(reg_val, env)
    \/ IrqReturn

Spec == Init /\ [][Next]_vars


(***************************************************************************)
(* Properties.                                                             *)
(***************************************************************************)
\* Total width of the group of the last codec call
LastWidth == GroupWidth(gop.g)

\* C1: field-group round trip.  A fault-free regmap_group_read of group G
\* that follows a fault-free regmap_group_write(G, v) with v < 2^W, W the
\* total width of G, returns exactly v.
RoundTrip ==
    (gop.kind = "read" /\ gop.ret = 0 /\ gop.wg = gop.g /\ gop.wv < Pow2(LastWidth))
        => gop.val = gop.wv

\* A four-field group written with a mixed bit pattern and read back
RoundTripReached ==
    /\ gop.kind = "read" /\ gop.ret = 0
    /\ gop.g = G.G_OFFDAC_LED2 /\ gop.wg = gop.g
    /\ gop.n = 4
    /\ gop.wv = 109
    /\ gop.val = 109

\* Number of slots of the FIFO read
NSlots == fifo.len \div 4

\* C2: byte-stream repack.  After a successful afe4410_i2c_fifo_read of
\* n > 1 slots, every slot i holds (hi << 16 | mid << 8 | lo) of the i-th
\* 3-byte triple the device sent.
RepackDescending ==
    (fifo.state = "done" /\ fifo.ret = 0 /\ NSlots > 1)
        => \A i \in 0 .. (NSlots - 1) : Slot(buffer, i, fifo.big) = Expected(fifo.wire, i)

\* A read of at least three slots whose triples are not all alike came out right
RepackDescendingReached ==
    /\ fifo.state = "done" /\ fifo.ret = 0 /\ NSlots >= 3
    /\ Expected(fifo.wire, 0) # Expected(fifo.wire, 1)
    /\ Expected(fifo.wire, 1) # Expected(fifo.wire, 2)
    /\ \A i \in 0 .. (NSlots - 1) : Slot(buffer, i, fifo.big) = Expected(fifo.wire, i)

\* The buffer of this call after the same loop body run first to last on
\* the wire bytes w
AscendingResult(w) ==
    LET rx == Received(buffer, w, fifo.len)
    IN Repack(rx, rx, SlotOrderAscending(fifo.len), fifo.big)

\* Some slot beyond the first is wrong after the ascending loop on w
AscendingCorruptsOn(w) ==
    \E i \in 1 .. (NSlots - 1) : Slot(AscendingResult(w), i, fifo.big) # Expected(w, i)

\* C3: ascending-order repack on the aliased buffer.  For every slot count
\* n > 1 and either byte order there are wire inputs for which the loop body
\* run from slot 0 upwards leaves some slot i >= 1 different from
\* (hi << 16 | mid << 8 | lo) of its triple.
AscendingCorrupts ==
    (fifo.state # "none" /\ NSlots > 1) => \E w \in WireInputs(NSlots) : AscendingCorruptsOn(w)

\* A read the descending loop got right and the ascending loop would not
AscendingCorruptsReached ==
    /\ fifo.state = "done" /\ fifo.ret = 0 /\ NSlots > 1
    /\ \A i \in 0 .. (NSlots - 1) : Slot(buffer, i, fifo.big) = Expected(fifo.wire, i)
    /\ AscendingCorruptsOn(fifo.wire)

\* The interrupt service got past the POINTER_DIFF read
CountRead == irq.served /\ irq.status # "ioerr"

\* The FIFO watermark and phase-count fields as programmed in the device
WmField == regmap_field_read(regs, F_WM_FIFO)

NumphaseField == regmap_field_read(regs, F_NUMPHASE)

\* C4: pointer-difference validation with used_phases = 4.  A new-sample
\* count (pointer_diff after the increment) of 40 passes validation with
\* cycles = 10; a count of 41 is a framing error: no burst read, no frame.
ValidationExample ==
    (CountRead /\ irq.used = 4)
        => /\ irq.reg_val = 39 => irq.pointer_diff = 40
           /\ irq.pointer_diff = 40
                 => (irq.status # "framing" /\ irq.read /\ irq.cycles = 10)
           /\ irq.pointer_diff = 41
                 => (irq.status = "framing" /\ ~irq.read /\ irq.frames = << >>)

\* Four phases, forty samples: ten frames pushed
ValidationExampleReached ==
    /\ CountRead /\ irq.used = 4 /\ irq.reg_val = 39 /\ irq.pointer_diff = 40
    /\ irq.status = "ok" /\ irq.cycles = 10 /\ Len(irq.frames) = 10

\* C5: sign-extension edge case.  A raw POINTER_DIFF value of 0x80 gives a
\* new-sample count of -127 and the service ends in a framing error for
\* every used_phases in 1..16: no burst read, no frame.
SignEdgeFraming ==
    (CountRead /\ irq.reg_val = 128)
        => /\ irq.pointer_diff = -127
           /\ irq.status = "framing" /\ ~irq.read /\ irq.frames = << >>

\* C6: watermark formula.  After every successful update_scan_mode with n
\* phases (1..16) the FIFO watermark field holds n * 10 - 1 (159 for n = 16)
\* and the phase-count field holds n - 1.
WatermarkFormula ==
    (cfg.called /\ cfg.ret = 0)
        => /\ cfg.phases \in 1 .. 16
           /\ WmField = cfg.phases * 10 - 1
           /\ NumphaseField = cfg.phases - 1
           /\ cfg.phases = 16 => WmField = 159

\* Sixteen phases configured
WatermarkFormulaReached ==
    /\ cfg.called /\ cfg.ret = 0 /\ cfg.phases = 16
    /\ WmField = 159 /\ NumphaseField = 15

\* The registers the last update_scan_mode call wrote
Written == { cfg.log[k].reg : k \in DOMAIN cfg.log }

\* C7: configuration transition scenario.  Enabling channels 0..3 on a
\* fault-free transport writes the per-phase registers of phases 0..3 and of
\* no other phase, leaves the sample time of phases 0..3 programmed, and
\* programs watermark 39 and phase-count value 3.
ConfigScenario ==
    (cfg.called /\ cfg.failAt = 0 /\ cfg.phases = 4)
        => /\ cfg.ret = 0
           /\ Written \cap { AFE4420_PHASECNTRL2(x) : x \in Phases }
                 = { AFE4420_PHASECNTRL2(x) : x \in 0 .. 3 }
           /\ Written \cap { AFE4420_PHASECNTRL0(x) : x \in Phases }
                 = { AFE4420_PHASECNTRL0(x) : x \in 0 .. 3 }
           /\ \A x \in 0 .. 3 :
                 BitAnd(regs[AFE4420_PHASECNTRL2(x)], AFE4420_PHASECNTRL2_TWLED) = 6
           /\ WmField = 39
           /\ NumphaseField = 3

\* Channels 0..3 enabled: ten register writes made
ConfigScenarioReached ==
    /\ cfg.called /\ cfg.failAt = 0 /\ cfg.ret = 0 /\ cfg.phases = 4
    /\ Len(cfg.log) = 10
    /\ WmField = 39 /\ NumphaseField = 3 /\ used_phases = 4

\* C8: watermark consistency.  In every state of a set-up device in which
\* used_phases is a phase count, the programmed FIFO watermark equals
\* used_phases * 10 - 1.
WatermarkConsistent ==
    (dev.state = "bound" /\ used_phases \in 1 .. 16) => WmField = used_phases * 10 - 1

\* C9: framing error handling.  Whenever the new-sample count is not a
\* multiple of used_phases the service makes no burst read, pushes no frame
\* and returns normally.
FramingDiscards ==
    (CountRead /\ irq.pointer_diff % irq.used # 0)
        => (irq.status = "framing" /\ ~irq.read /\ irq.frames = << >>)

\* C10: frames of a validated interrupt.  When validation passes and the
\* transport delivers, the service has requested exactly used_phases * cycles
\* words, with cycles = count / used_phases, and pushes exactly cycles
\* frames, frame k starting at word k * used_phases.
ValidatedFrames ==
    (CountRead /\ irq.status \notin {"framing", "readfail"})
        => /\ irq.status = "ok"
           /\ irq.cycles * irq.used = irq.pointer_diff
           /\ irq.len = 4 * irq.used * irq.cycles
           /\ Len(irq.frames) = irq.cycles
           /\ \A k \in DOMAIN irq.frames : irq.frames[k] = 4 * ((k - 1) * irq.used)

\* The fields of the group of the last codec call
LastFields == GroupFields(gop.g)

\* The bits of v that regmap_group_write hands to the j-th field of fs
FieldBits(v, fs, j) ==
    (v \div Pow2(SumWidths(SubSeq(fs, 1, j - 1)))) % Pow2(FieldWidth(fs[j]))

RECURSIVE GroupMaskOf(_, _)
\* The bits of register r that belong to a field of fs
GroupMaskOf(fs, r) ==
    IF fs = << >> THEN 0
    ELSE LET f == afe4410_reg_fields[Head(fs)]
         IN BitOr(IF f.reg = r THEN FieldMask(f) ELSE 0, GroupMaskOf(Tail(fs), r))

\* C15: group read abort.  A regmap_group_read whose field read fails
\* returns the error, has read no later field, and leaves in the caller's
\* value none of the bits of the fields read before the failure.
GroupReadNoPartial ==
    (gop.kind = "read" /\ gop.ret # 0)
        => (gop.ret = -5 /\ gop.n = gop.failAt - 1 /\ gop.val = 0)

\* C16: group write abort.  A regmap_group_write whose k-th field write
\* fails returns the error, has written the k - 1 fields before it, each of
\* which holds its bits of the new value, and has left the k-th and every
\* later field of the group as it was.
GroupWriteAborts ==
    (gop.kind = "write" /\ gop.ret # 0)
        => /\ gop.ret = -5
           /\ gop.n = gop.failAt - 1
           /\ \A j \in 1 .. Len(LastFields) :
                 regmap_field_read(regs10, afe4410_reg_fields[LastFields[j]])
                   = IF j < gop.failAt
                     THEN FieldBits(gop.v, LastFields, j)
                     ELSE regmap_field_read(gop.rf0, afe4410_reg_fields[LastFields[j]])

\* A four-field group whose third field write failed: the first two fields
\* hold the new bits, the last two still hold the old ones
GroupWriteAbortsReached ==
    /\ gop.kind = "write" /\ gop.ret = -5
    /\ gop.g = G.G_OFFDAC_LED2 /\ gop.v = 109 /\ gop.failAt = 3 /\ gop.n = 2
    /\ regs10 # gop.rf0
    /\ regmap_field_read(regs10, afe4410_reg_fields[LastFields[2]])
         = FieldBits(109, LastFields, 2)
    /\ regmap_field_read(regs10, afe4410_reg_fields[LastFields[3]])
         # FieldBits(109, LastFields, 3)

\* C17: silent truncation on write.  With a fault-free transport
\* regmap_group_write(G, v) succeeds for every v and leaves the registers as
\* regmap_group_write(G, v mod 2^W) does, W the total width of G, and no
\* register bit outside the fields of G changes.
WriteTruncates ==
    (gop.kind = "write" /\ gop.failAt = 0)
        => /\ gop.ret = 0
           /\ regs10 = regmap_group_write(gop.rf0, GroupStart(gop.g),
                                          gop.v % Pow2(LastWidth), 0).rf
           /\ \A r \in Afe4410Regs :
                 BitAndNot(regs10[r], GroupMaskOf(LastFields, r))
                   = BitAndNot(gop.rf0[r], GroupMaskOf(LastFields, r))

\* A value wider than its group was written and changed the registers
WriteTruncatesReached ==
    /\ gop.kind = "write" /\ gop.failAt = 0 /\ gop.ret = 0
    /\ gop.v >= Pow2(LastWidth)
    /\ regs10 # gop.rf0

\* The registers as a successful afe4420_setup leaves them
SetupRegs == afe4420_setup(ResetRegs, "none", 1).rf

\* The register writes of the last update_scan_mode call, had none failed
CfgOps == ScanModeOps(cfg.phases)

\* C18: configuration transition failure.  An update_scan_mode call whose
\* k-th register write fails returns the error, has made exactly the k - 1
\* writes before it and none after it, and the registers hold what those
\* writes put there; used_phases is not set by the first failing call.
ConfigAborts ==
    (cfg.called /\ cfg.failAt \in 1 .. Len(CfgOps))
        => /\ cfg.ret = -5
           /\ cfg.log = SubSeq(CfgOps, 1, cfg.failAt - 1)
           /\ \A k \in DOMAIN cfg.log :
                 BitAnd(regs[cfg.log[k].reg], cfg.log[k].mask)
                    = BitAnd(cfg.log[k].val, cfg.log[k].mask)
           /\ dev.nconfigs = 1
                 => /\ regs = ApplyOps(SetupRegs, CfgOps, cfg.failAt - 1)
                    /\ used_phases = 0

\* Enabling four phases failed at the first sample-time write: the four PD
\* enables are in the registers, the watermark is not
ConfigAbortsReached ==
    /\ cfg.called /\ cfg.phases = 4 /\ cfg.failAt = 5 /\ cfg.ret = -5
    /\ dev.nconfigs = 1
    /\ Len(cfg.log) = 4
    /\ regs # SetupRegs
    /\ BitAnd(regs[AFE4420_PHASECNTRL0(3)], AFE4420_PHASECNTRL0_PD_ON1) # 0
    /\ WmField # 39

\* C19: active phase count range.  In every state of a set-up device
\* used_phases is within 1 .. 16.
ActivePhaseRange ==
    dev.state = "bound" => used_phases \in 1 .. AFE4420_TOTAL_PHASES

\* C11: transport failure in the interrupt service.  A service whose
\* POINTER_DIFF read fails makes no other transport access, one whose burst
\* read fails makes no access after it; either way no frame is pushed, no
\* access is made twice, and the service returns IRQ_HANDLED.
TransportFailureEnds ==
    (irq.served /\ irq.fail # "none")
        => /\ irq.ret = "IRQ_HANDLED"
           /\ irq.frames = << >>
           /\ irq.accesses = IF irq.fail = "ptr" THEN <<"POINTER_DIFF">>
                              ELSE <<"POINTER_DIFF", "FIFO">>
           /\ irq.read = (irq.fail = "read")

\* A burst read of a full FIFO of four phases failed after a good count
TransportFailureEndsReached ==
    /\ irq.served /\ irq.fail = "read" /\ irq.status = "readfail"
    /\ irq.used = 4 /\ irq.pointer_diff = 40 /\ irq.len = 160
    /\ irq.frames = << >> /\ irq.ret = "IRQ_HANDLED"

\* C13: oneshot drain.  Whenever the service returns, the burst read has
\* taken the samples that raised the interrupt out of the FIFO.
OneshotDrain ==
    (irq.served /\ irq.ret = "IRQ_HANDLED") => irq.drained

\* C12: the sampling path and the configuration path exclude each other.
\* From the POINTER_DIFF read of a service to its last push no
\* update_scan_mode call changes used_phases: while a service is past its
\* modulo test used_phases is the value the test read, and the division,
\* burst length and frame stride of a finished service used that value.
SingleCountPerService ==
    /\ irq.stage = "checked" => used_phases = irq.used
    /\ (irq.served /\ irq.read) => irq.used2 = irq.used

\* C14: power rail ordering.  No register access is made while tx_sup is
\* disabled, and after a teardown that returned 0 the rail is disabled.
PowerRailOrdering ==
    /\ ~dev.offaccess
    /\ (dev.state = "removed" /\ dev.ret = 0) => dev.power = 0

\* The table of the attribute of the last codec call
LastTable == afe440x_attrs[gop.attr].val_table

\* The positions of the stored value in that table, counted from 0
LastMatches == { i \in 0 .. (Len(LastTable) - 1) : LastTable[i + 1] = <<gop.integer, gop.fract>> }

\* The value now in the group of the last codec call
LastGroupValue == regmap_group_read(regs10, GroupStart(gop.g), 0).val

\* C20: table-backed attributes are validated.  A store of a value that is
\* in no entry of the table returns -EINVAL and changes no register; a
\* fault-free store of entry i leaves exactly i in the group; a show of a
\* group value at or above the table size returns -EINVAL, and one below it
\* returns that entry of the table.
TableValidated ==
    /\ gop.kind = "store" =>
          /\ LastMatches = {} => (gop.ret = -22 /\ gop.n = 0 /\ regs10 = gop.rf0)
          /\ (LastMatches # {} /\ gop.failAt = 0) =>
                /\ gop.ret = 1
                /\ LastMatches = {LastGroupValue}
                /\ regs10 = regmap_group_write(gop.rf0, GroupStart(gop.g),
                                               LastGroupValue, 0).rf
    /\ (gop.kind = "show" /\ gop.failAt = 0) =>
          IF LastGroupValue >= Len(LastTable)
          THEN gop.ret = -22
          ELSE gop.ret = 1 /\ <<gop.integer, gop.fract>> = LastTable[LastGroupValue + 1]

\* The last entry of the resistance table was stored and is in the group
TableValidatedReached ==
    /\ gop.kind = "store" /\ gop.ret = 1
    /\ gop.integer = 1500000 /\ gop.fract = 0
    /\ LastGroupValue = 8
    /\ regs10 # gop.rf0

\* C21: early and late interrupts are not fatal.  When the validation passed
\* with a cycle count other than 10 and the transport delivers, the service
\* makes the burst read and pushes cycles frames, frame k at word
\* k * used_phases, as it does for 10 cycles.
EarlyLateNonFatal ==
    (CountRead /\ irq.status \notin {"framing", "readfail"} /\ irq.cycles # 10)
        => /\ irq.status = "ok" /\ irq.read /\ irq.ret = "IRQ_HANDLED"
           /\ Len(irq.frames) = irq.cycles
           /\ \A k \in DOMAIN irq.frames : irq.frames[k] = 4 * ((k - 1) * irq.used)

\* C22: the byte-stream decoder's output is unsigned 24-bit.  After a
\* successful afe4410_i2c_fifo_read every slot of the buffer holds a value
\* in 0 .. 2^24 - 1: its top byte is zero whatever the wire bytes and the
\* bytes the buffer held before.
SlotsUnsigned24 ==
    (fifo.state = "done" /\ fifo.ret = 0)
        => \A i \in 0 .. (NSlots - 1) :
              /\ Slot(buffer, i, fifo.big) \in 0 .. (Pow2(24) - 1)
              /\ buffer[IF fifo.big THEN 4 * i ELSE 4 * i + 3] = 0

\* A read into a buffer of stale non-zero bytes took a triple with bit 23 set
SlotsUnsigned24Reached ==
    /\ fifo.state = "done" /\ fifo.ret = 0 /\ NSlots >= 2
    /\ fifo.wire[3] = 255 /\ fifo.wire[0] = 128
    /\ Slot(buffer, 1, fifo.big) = Pow2(24) - 1
    /\ Slot(buffer, 0, fifo.big) >= Pow2(23)
    /\ buffer[IF fifo.big THEN 4 ELSE 7] = 0

\* C23: order and commit of a configuration transition.  The register writes
\* of every update_scan_mode call to n phases are, in this order, a prefix
\* of: PD_ON1 of PHASECNTRL0(0 .. n-1), TWLED of PHASECNTRL2(0 .. n-1), the
\* watermark field, the phase-count field.  used_phases becomes n only in a
\* call that made all 2n + 2 writes and returned 0; in every other call it
\* keeps the value it had.
ConfigOrderCommit ==
    [][dev'.nconfigs = dev.nconfigs + 1 =>
         LET n == cfg'.phases
             log == cfg'.log
         IN /\ Len(log) <= 2 * n + 2
            /\ \A k \in DOMAIN log :
                 <<log[k].reg, log[k].mask>> =
                    IF k <= n
                    THEN <<AFE4420_PHASECNTRL0(k - 1), AFE4420_PHASECNTRL0_PD_ON1>>
                    ELSE IF k <= 2 * n
                    THEN <<AFE4420_PHASECNTRL2(k - n - 1), AFE4420_PHASECNTRL2_TWLED>>
                    ELSE IF k = 2 * n + 1
                    THEN <<F_WM_FIFO.reg, FieldMask(F_WM_FIFO)>>
                    ELSE <<F_NUMPHASE.reg, FieldMask(F_NUMPHASE)>>
            /\ cfg'.ret = 0 <=> Len(log) = 2 * n + 2
            /\ used_phases' = IF cfg'.ret = 0 THEN n ELSE used_phases
    ]_vars

\* A second transition failed at its last write, the phase-count field:
\* everything before it was written and used_phases is still the first count
ConfigOrderCommitReached ==
    /\ dev.nconfigs = 2 /\ cfg.ret = -5
    /\ cfg.failAt = 2 * cfg.phases + 2
    /\ Len(cfg.log) = 2 * cfg.phases + 1
    /\ WmField = cfg.phases * 10 - 1
    /\ used_phases \in 1 .. 16 /\ used_phases # cfg.phases
    /\ NumphaseField = used_phases - 1

\* C24: the field-group table is well formed and the codec stays in its row.
\* Every row of afe4410_groups[][6] is a run of one to five ids of
\* afe4410_reg_fields[] followed only by zeros, and the widths of its fields
\* add up to at most 32.  A fault-free regmap_group_read or
\* regmap_group_write of row g returns 0 after visiting exactly the fields
\* the row lists, each at the bit offset its place in the row gives it,
\* least significant first.
GroupTableWellFormed ==
    /\ \A g \in Groups :
         LET row == SubSeq(afe4410_groups, g * GroupRowLen + 1, (g + 1) * GroupRowLen)
             n == Cardinality({j \in 1 .. GroupRowLen : row[j] # 0})
         IN /\ n \in 1 .. (GroupRowLen - 1)
            /\ \A j \in 1 .. GroupRowLen :
                  IF j <= n THEN row[j] \in 1 .. (F.F_MAX_FIELDS - 1)
                                 /\ row[j] \in DOMAIN afe4410_reg_fields
                  ELSE row[j] = 0
            /\ SumWidths(SubSeq(row, 1, n)) <= 32
    /\ (gop.kind \in {"read", "write"} /\ gop.failAt = 0) =>
         LET row == SubSeq(afe4410_groups, gop.g * GroupRowLen + 1,
                           (gop.g + 1) * GroupRowLen)
             n == Cardinality({j \in 1 .. GroupRowLen : row[j] # 0})
             listed == SubSeq(row, 1, n)
             v == IF gop.kind = "read" THEN gop.val ELSE gop.v
         IN /\ gop.ret = 0
            /\ gop.n = n
            /\ \A j \in 1 .. n :
                  regmap_field_read(regs10, afe4410_reg_fields[listed[j]])
                     = FieldBits(v, listed, j)
            /\ gop.kind = "read" => gop.val < Pow2(SumWidths(listed))

\* A four-field row was written and its walk ended at the row's own sentinel
GroupTableWellFormedReached ==
    /\ gop.kind = "write" /\ gop.failAt = 0 /\ gop.ret = 0
    /\ gop.g = G.G_OFFDAC_LED1 /\ gop.n = 4 /\ gop.v = 109
    /\ afe4410_groups[gop.g * GroupRowLen + 5] = 0
    /\ regs10 # gop.rf0
    /\ regmap_group_read(regs10, gop.g * GroupRowLen + 1, 0).val = 109 % Pow2(7)

\* C25: the averages attribute.  A store of v outside 1 .. 16 returns
\* -EINVAL and touches no register; a store of v in 1 .. 16 that the
\* transport carries out returns count, leaves v - 1 in the NUMAV field of
\* its phase and changes no other bit, so that a show then gives v; a show
\* gives the field value plus one.
AveragesAttr ==
    [][dev'.nattrs = dev.nattrs + 1 =>
         LET a == dev'.attr
             f == F_NUMAV(a.phase)
         IN /\ a.kind = "store_av" =>
                 /\ a.ret = 1 => a.integer \in 1 .. 16
                 /\ a.integer \notin 1 .. 16 =>
                       (a.ret = -22 /\ regs' = regs /\ dev'.offaccess = dev.offaccess)
                 /\ a.ret # 1 => regs' = regs
                 /\ a.ret = 1 =>
                       /\ regmap_field_read(regs', f) = a.integer - 1
                       /\ regs' = [regs EXCEPT ![f.reg] =
                                      BitOr(BitAnd(@, Pow2(24) - 1 - FieldMask(f)),
                                            a.integer - 1)]
                       /\ afe4420_show_averages(regs', a.phase, TRUE)
                             = [ret |-> 1, val |-> a.integer]
            /\ (a.kind = "show_av" /\ a.ret = 1) =>
                 /\ a.integer = regmap_field_read(regs, f) + 1
                 /\ regs' = regs
    ]_vars

\* 16 was stored for the last phase: its NUMAV field holds 15, the gain
\* fields beside it are as they were
AveragesAttrReached ==
    /\ dev.attr.kind = "store_av" /\ dev.attr.ret = 1
    /\ dev.attr.integer = 16 /\ dev.attr.phase = 15
    /\ regmap_field_read(regs, F_NUMAV(15)) = 15
    /\ regmap_field_read(regs, F_TIA_GAIN_RF(15)) = regmap_field_read(SetupRegs, F_TIA_GAIN_RF(15))
    /\ afe4420_show_averages(regs, 15, TRUE).val = 16

\* C26: the AFE4410 interrupt service.  Every service asks the transport
\* for 4 * 10 words once; when the read succeeds it pushes 10 frames, frame
\* k at word 4 * k, one after another in ascending order and inside the
\* 40-word buffer; when the read fails it pushes none.  It returns
\* IRQ_HANDLED either way.
Afe4410Service ==
    irq.served
        => /\ irq.read /\ irq.accesses = <<"FIFO">>
           /\ irq.len = 4 * (4 * 10)
           /\ irq.ret = "IRQ_HANDLED"
           /\ irq.fail = "read" => irq.frames = << >>
           /\ irq.fail = "none" =>
                 /\ Len(irq.frames) = 10
                 /\ \A k \in 1 .. 10 :
                       /\ irq.frames[k] = 4 * (4 * (k - 1))
                       /\ irq.frames[k] + 4 * 4 <= irq.len

\* A service whose read succeeded pushed its ten frames, the last one the
\* last four words of the buffer
Afe4410ServiceReached ==
    /\ irq.served /\ irq.status = "ok" /\ irq.len = 160
    /\ Len(irq.frames) = 10
    /\ irq.frames[1] = 0 /\ irq.frames[10] = 144
    /\ nops = 2 /\ gop.kind = "write"

\* C27: the burst read fits the sample buffer.  In every service that got
\* past the modulo test, with used_phases in 1 .. 16, the byte length handed
\* to fifo_read is used_phases * cycles * 4, is not negative and is at most
\* the 512 bytes of afe->buffer, and every frame pushed lies inside the
\* buffer.
FifoBufferBound ==
    (CountRead /\ irq.status # "framing" /\ irq.used \in 1 .. AFE4420_TOTAL_PHASES)
        => /\ irq.read
           /\ irq.status # "crash"
           /\ irq.len = irq.used * irq.cycles * 4
           /\ irq.len >= 0 /\ irq.len <= 128 * 4
           /\ \A k \in DOMAIN irq.frames :
                 irq.frames[k] >= 0 /\ irq.frames[k] + 4 * irq.used <= 128 * 4

\* C28: frame of a configuration transition.  An update_scan_mode call to n
\* phases, failed or not, changes at most the PD_ON1 bit of PHASECNTRL0(i)
\* and the TWLED bits of PHASECNTRL2(i) for i < n, the watermark bits of the
\* FIFO register and the NUMPHASE bits of the PHASE register: every other
\* bit of those registers and every other register keep their values.
ConfigFrame ==
    [][dev'.nconfigs = dev.nconfigs + 1 =>
         \A r \in DOMAIN regs :
            LET n == cfg'.phases
                may == IF \E i \in 0 .. (n - 1) : r = AFE4420_PHASECNTRL0(i)
                         THEN AFE4420_PHASECNTRL0_PD_ON1
                       ELSE IF \E i \in 0 .. (n - 1) : r = AFE4420_PHASECNTRL2(i)
                         THEN AFE4420_PHASECNTRL2_TWLED
                       ELSE IF r = AFE4420_FIFO THEN AFE4420_FIFO_REG_WM_FIFO
                       ELSE IF r = AFE4420_PHASE THEN AFE4420_PHASE_REG_NUMPHASE
                       ELSE 0
            IN \/ regs'[r] = regs[r]
               \/ BitAnd(regs'[r], Pow2(24) - 1 - may) = BitAnd(regs[r], Pow2(24) - 1 - may)
    ]_vars

\* Four phases were enabled after setup: the LED driver selects of phase 4,
\* STAGGER_LED of phase 2, the interrupt mux and the filter resets are
\* still set beside the new bits, and phase 5 is as setup left it
ConfigFrameReached ==
    /\ cfg.called /\ cfg.ret = 0 /\ cfg.phases = 4 /\ dev.nconfigs = 1
    /\ regs[AFE4420_PHASECNTRL0(3)]
         = BitOr(SetupRegs[AFE4420_PHASECNTRL0(3)], AFE4420_PHASECNTRL0_PD_ON1)
    /\ SetupRegs[AFE4420_PHASECNTRL0(3)] # 0
    /\ regs[AFE4420_PHASECNTRL2(1)]
         = BitOr(AFE4420_PHASECNTRL2_STAGGER_LED, AFE4420_DEFAULT_TWLED)
    /\ regs[AFE4420_FIFO] = AFE4420_FIFO_INT_MUX_FIFO_RDY + 39 * Pow2(6)
    /\ regs[AFE4420_PHASE] = AFE4420_PHASE_FILT_RESET_ENZ + 3
    /\ regs[AFE4420_PHASECNTRL0(4)] = SetupRegs[AFE4420_PHASECNTRL0(4)]
    /\ regs[AFE4420_PHASECNTRL0(4)] # 0

\* C29: photodiode enables only accumulate.  After an update_scan_mode call
\* that returned 0 with n phases every phase below n has PD_ON1 set and
\* TWLED at its default, and no update_scan_mode call, failed or not,
\* clears a PD_ON1 bit that was set before it: the phases enabled under an
\* earlier, larger count stay enabled.
PdEnableMonotone ==
    [][dev'.nconfigs = dev.nconfigs + 1 =>
         /\ cfg'.ret = 0 =>
               \A i \in 0 .. (cfg'.phases - 1) :
                  /\ BitAnd(regs'[AFE4420_PHASECNTRL0(i)], AFE4420_PHASECNTRL0_PD_ON1)
                        = AFE4420_PHASECNTRL0_PD_ON1
                  /\ BitAnd(regs'[AFE4420_PHASECNTRL2(i)], AFE4420_PHASECNTRL2_TWLED)
                        = AFE4420_DEFAULT_TWLED
         /\ \A i \in Phases :
               BitAnd(regs[AFE4420_PHASECNTRL0(i)], AFE4420_PHASECNTRL0_PD_ON1) # 0
                  => BitAnd(regs'[AFE4420_PHASECNTRL0(i)], AFE4420_PHASECNTRL0_PD_ON1) # 0
    ]_vars

\* After 16 phases and then 4 the photodiode of phase 16 is still enabled
\* although only four phases are in use
PdEnableMonotoneReached ==
    /\ dev.nconfigs = 2 /\ cfg.ret = 0 /\ cfg.phases = 4 /\ used_phases = 4
    /\ NumphaseField = 3
    /\ BitAnd(regs[AFE4420_PHASECNTRL0(15)], AFE4420_PHASECNTRL0_PD_ON1) # 0
    /\ BitAnd(regs[AFE4420_PHASECNTRL2(15)], AFE4420_PHASECNTRL2_TWLED) = AFE4420_DEFAULT_TWLED
    /\ BitAnd(regs[AFE4420_PHASECNTRL0(3)], AFE4420_PHASECNTRL0_PD_ON1) # 0

\* C30: setup power balance.  Whenever setup has returned an error, at any
\* of its steps, tx_sup is disabled: every failure after regulator_enable
\* is followed by regulator_disable before the return.
SetupPowerBalance ==
    (dev.state = "failed" /\ dev.ret # 0) => dev.power = 0

====
